---- MODULE Spec2Model ----
(***************************************************************************)
(* LAN Mic receiver: the session/media pipeline of receiver/src.           *)
(*                                                                         *)
(*   core/mod.rs                    the coordinator's command loop and the *)
(*                                  shared status                          *)
(*   core/signaling.rs              the HTTP server's activation and the   *)
(*                                  WebSocket handler with its guard flag  *)
(*   core/signaling/webrtc_session.rs  one session: offer, signaling loop, *)
(*                                  ICE buffering, the decode loop         *)
(*   audio/mod.rs                   the output stream and its callbacks    *)
(*                                                                         *)
(* The storage of log lines is left out (it is display-only); the one log  *)
(* line a property depends on, the overflow summary of the decode loop, is *)
(* kept in ovlog.                                                          *)
(***************************************************************************)
EXTENDS Integers, Sequences, FiniteSets, TLC

\* ------------------------------------------------------------------ bounds
\* The sample queue's capacity, scaled down from ArrayQueue::new(48_000).
Capacity == 2
\* Sample frames (per channel) one decoded packet carries at most.
MaxFrameLen == 2
\* Output frames one callback invocation asks for at most.
MaxCbFrames == 2
\* Seconds the clock runs past the log interval.
MaxTimeSlack == 1
\* Packets one decode task reads at most.
MaxFrames == 2
\* Invocations of the output callback at most.
MaxCallbacks == 1
\* Commands the control plane submits at most.
MaxCmds == 2
\* WebSocket connections attempted at most.
NConn == 2
\* Remote ICE candidates one signaling session receives at most.
MaxIce == 3
\* Device switches submitted to one run at most.
MaxSwitches == 1
\* Remote session descriptions one signaling session receives at most.
MaxSdp == 2
\* The outbound signaling channel's capacity, scaled down from
\* SIGNAL_CHANNEL_SIZE = 64.
SignalChannelSize == 2
\* Messages of the window the application handles at most (device picks,
\* the start/stop button, the STUN box).
MaxUi == 4
\* Status refreshes (Tick messages) the application handles at most.
MaxTicks == 2
\* Local ICE candidates a peer connection gathers: one more than the outbound
\* channel holds.
MaxCands == 3
\* Configuration ranges a device offers at most.
MaxConfigs == 2
\* Largest value of a 64-bit counter where the stream of packets has no end:
\* audio_packets stops at it (saturating_add), the drop counter wraps past
\* it (fetch_add).
CounterMax == 2

\* ------------------------------------------------------- program constants
\* Seconds between two overflow summary lines.
LOG_INTERVAL_SECS == 5
U16_MAX == 65535
\* The rate of the queue's samples, which the output stream must run at.
SAMPLE_RATE == 48000

\* Pushes the decode loops issue at most in the queue specification: enough to
\* overflow the queue by two.
MaxPushes == Capacity + 2
MaxTime == 2 * LOG_INTERVAL_SECS + MaxTimeSlack

Conns == 1 .. NConn
Ids == 1 .. MaxCmds + 1
\* PCM values a decoder hands out: a negative and a positive one, of odd sum.
Samples == {-3, 2}
Devices == {"Speakers", "Cable"}
Formats == {"F32", "I16", "U16"}
ChannelCounts == {1, 2}

Min(a, b) == IF a < b THEN a ELSE b
Max(a, b) == IF a > b THEN a ELSE b

VARIABLES
    cmds,           \* the unbounded command channel, oldest first
    submitted,      \* history: every command sent, in submission order
    coord,          \* the coordinator's position in its loop
    coordLog,       \* history: the begin and end of each command's processing
    running,        \* Option<Running>
    status,         \* the shared Status (without log_lines)
    session_state,  \* HttpServer.session_state: 0 = None, else an activation
    act,            \* the SessionState of each activation
    queues,         \* the contents of each ArrayQueue created
    nstarts,        \* Start commands processed so far: names queues, activations
    h,              \* each WebSocket handler's position
    sess,           \* each session's run(): peer connection, ICE buffer, channel
    dec,            \* each session's decode task
    cb,             \* the output stream's data callback
    now,            \* the clock, in seconds
    qstat,          \* history: pushes, overflows, pops of each queue
    ovlog,          \* history: the overflow summary lines, (time, total) each
    budget,         \* what the environment may still do
    app,            \* the application (control plane): App's fields
    host            \* the audio host: each device's configurations

vars == <<cmds, submitted, coord, coordLog, running, status, session_state, act,
          queues, nstarts, h, sess, dec, cb, now, qstat, ovlog, budget, app,
          host>>

coordVars == <<cmds, submitted, coord, coordLog, running, nstarts, app, host>>
sigVars == <<session_state, act>>
queueVars == <<queues, qstat>>
decVars == <<dec, ovlog>>

\* ============================================================ Sample Bridge
\* crossbeam's ArrayQueue as the code uses it: a bounded FIFO whose push fails
\* on a full queue and whose pop returns None on an empty one.
\* QPush with the capacity test off by one.
QPush_OffByOne(q, s) ==
    IF Len(q) <= Capacity
    THEN [ok |-> TRUE, q |-> Append(q, s)]
    ELSE [ok |-> FALSE, q |-> q]

\* QPush as a ring that overwrites its oldest entry when full.
QPush_Overwrite(q, s) ==
    IF Len(q) < Capacity
    THEN [ok |-> TRUE, q |-> Append(q, s)]
    ELSE [ok |-> TRUE, q |-> Append(Tail(q), s)]

QPush(q, s) ==
    IF Len(q) < Capacity
    THEN [ok |-> TRUE, q |-> Append(q, s)]
    ELSE [ok |-> FALSE, q |-> q]

\* QPop taking the newest sample.
QPop_Newest(q) ==
    IF q = <<>> THEN [some |-> FALSE, val |-> 0, q |-> q]
    ELSE [some |-> TRUE, val |-> q[Len(q)], q |-> SubSeq(q, 1, Len(q) - 1)]

QPop(q) ==
    IF q = <<>>
    THEN [some |-> FALSE, val |-> 0, q |-> q]
    ELSE [some |-> TRUE, val |-> Head(q), q |-> Tail(q)]

\* History of a queue: pushes, overflows and pops so far, and mark, how many
\* samples it had stored in all when the latest device switch on it began.
NoStat == [pushes |-> 0, overflows |-> 0, pops |-> 0, mark |-> 0]

\* ================================================================== status
InitStatus ==
    [server_running |-> FALSE, ws_url |-> "wss", client_connected |-> FALSE,
     client_addr |-> 0, pc_state |-> "None", last_error |-> "None",
     audio_packets |-> 0]

\* bump_audio_packets that counts nothing.
bump_audio_packets_Lost(s, n) == s

bump_audio_packets(s, n) == [s EXCEPT !.audio_packets = @ + n]

\* reset_connection zeroing the packet counter as well.
reset_connection_ClearPackets(s) ==
    [s EXCEPT !.server_running = FALSE, !.client_connected = FALSE,
              !.client_addr = 0, !.pc_state = "None", !.audio_packets = 0]

\* reset_connection clearing last_error as well.
reset_connection_ClearError(s) ==
    [s EXCEPT !.server_running = FALSE, !.client_connected = FALSE,
              !.client_addr = 0, !.pc_state = "None", !.last_error = "None"]

\* reset_connection leaving the client fields.
reset_connection_ServerOnly(s) == [s EXCEPT !.server_running = FALSE]

reset_connection(s) ==
    [s EXCEPT !.server_running = FALSE, !.client_connected = FALSE,
              !.client_addr = 0, !.pc_state = "None"]

\* ============================================================ audio output
\* AudioOutput::stopped(): no stream.
StoppedAudio ==
    [stream |-> FALSE, device_name |-> "(stopped)", fmt |-> "none",
     channels |-> 0, rate |-> 0, queue |-> 0]

\* The name AudioOutput::start binds: the named device or the default one.
ResolveDevice(name) == IF name = "None" THEN "Default" ELSE name

\* AudioOutput::start on success: a playing stream of configuration cfg
\* whose callback reads q.
OpenAudio(name, cfg, q) ==
    [stream |-> TRUE, device_name |-> ResolveDevice(name), fmt |-> cfg.fmt,
     channels |-> cfg.channels, rate |-> cfg.rate, queue |-> q]

\* A SupportedStreamConfigRange and a SupportedStreamConfig; NoConfig stands
\* for a default_output_config() that fails.
ConfigRange(lo, hi, ch, fmt) ==
    [min |-> lo, max |-> hi, channels |-> ch, fmt |-> fmt]
StreamConfig(rate, ch, fmt) == [rate |-> rate, channels |-> ch, fmt |-> fmt]
NoConfig == StreamConfig(0, 0, "none")

DeviceNames == Devices \cup {"Default"}

\* The host the other specifications run on: stereo f32 speakers, a mono
\* i16 cable, a default device of stereo u16, each covering 48 kHz.
StdHost ==
    [configs |->
        [d \in DeviceNames |->
            CASE d = "Speakers" -> <<ConfigRange(44100, 96000, 2, "F32")>>
              [] d = "Cable" -> <<ConfigRange(48000, 48000, 1, "I16")>>
              [] OTHER -> <<ConfigRange(44100, 96000, 2, "U16")>>],
     default |-> [d \in DeviceNames |-> NoConfig]]

\* pick_output_config's filter and its sort key (lower is better).
Covers48k(r) == r.min <= SAMPLE_RATE /\ r.max >= SAMPLE_RATE
ChPenalty(ch) == CASE ch = 2 -> 0 [] ch = 1 -> 1 [] OTHER -> 2
FmtPenalty_I16First(fmt) ==
    CASE fmt = "I16" -> 0 [] fmt = "F32" -> 1 [] fmt = "U16" -> 2 [] OTHER -> 3
FmtPenalty(fmt) ==
    CASE fmt = "F32" -> 0 [] fmt = "I16" -> 1 [] fmt = "U16" -> 2 [] OTHER -> 3
KeyLeq(a, b) ==
    \/ ChPenalty(a.channels) < ChPenalty(b.channels)
    \/ /\ ChPenalty(a.channels) = ChPenalty(b.channels)
       /\ FmtPenalty(a.fmt) <= FmtPenalty(b.fmt)

\* sort_by_key, a stable sort: r goes behind every element whose key is not
\* greater than its own.
RECURSIVE InsertByKey(_, _)
InsertByKey(q, r) ==
    IF q = <<>> THEN <<r>>
    ELSE IF KeyLeq(q[Len(q)], r) THEN Append(q, r)
    ELSE Append(InsertByKey(SubSeq(q, 1, Len(q) - 1), r), q[Len(q)])
RECURSIVE SortByKey(_)
SortByKey(q) ==
    IF q = <<>> THEN <<>>
    ELSE InsertByKey(SortByKey(SubSeq(q, 1, Len(q) - 1)), q[Len(q)])

\* pick_output_config for device d: the first of the sorted candidates at
\* 48 kHz; without candidates (or when the configurations cannot be listed)
\* the device's default configuration, whatever its rate; an error when that
\* fails too.
pick_output_config(d) ==
    LET candidates == SortByKey(SelectSeq(host.configs[d], Covers48k))
    IN  IF candidates # <<>>
        THEN [ok |-> TRUE,
              cfg |-> StreamConfig(SAMPLE_RATE, candidates[1].channels,
                                   candidates[1].fmt)]
        ELSE [ok |-> host.default[d] # NoConfig, cfg |-> host.default[d]]

\* Whether AudioOutput::start can succeed for a device name: a configuration
\* is picked and its sample format is one of the three a stream is built for.
CanStart(name) ==
    /\ ResolveDevice(name) \in DeviceNames
    /\ LET p == pick_output_config(ResolveDevice(name))
       IN  p.ok /\ p.cfg.fmt \in Formats

\* What each write callback makes of a popped i16: f32 as the numerator of
\* s / 32768, i16 unchanged, u16 offset by 32768 and clamped.
ConvertSample(fmt, s) ==
    CASE fmt = "F32" -> [num |-> s, den |-> 32768]
      [] fmt = "I16" -> [num |-> s, den |-> 1]
      [] OTHER -> [num |-> Max(0, Min(U16_MAX, s + 32768)), den |-> 1]

\* UnwrapOr0 with a default that is not silence.
UnwrapOr_NotSilence(r) == IF r.some THEN r.val ELSE 1

\* The sample a callback uses for a pop's result: q.pop().unwrap_or(0).
UnwrapOr0(r) == IF r.some THEN r.val ELSE 0

\* frame.fill(v): the value on every channel of one output frame.
FillFrame(ch, v) == [i \in 1 .. ch |-> v]

\* The data callback between invocations; popped records, for each frame
\* written so far, whether its pop found a sample, and q0 (history) what the
\* queue held when the invocation began.
NoCb == [st |-> "idle", frames |-> 0, out |-> <<>>, popped |-> <<>>, q0 |-> <<>>]

\* Option<Running>: None, and Some(Running{audio, queue, _session_cancel, mdns}).
NoRunning ==
    [some |-> FALSE, audio |-> StoppedAudio, queue |-> 0, cancel |-> 0,
     mdns |-> FALSE]

SomeRunning(a, q, g, m) ==
    [some |-> TRUE, audio |-> a, queue |-> q, cancel |-> g, mdns |-> m]

\* The AudioOutput whose stream is open: the run record's, or the one a
\* command in progress holds in a local (the record it took, the stream it
\* just opened).
LiveAudio ==
    IF running.audio.stream THEN running.audio
    ELSE IF coord.r.audio.stream THEN coord.r.audio
    ELSE coord.audio

LiveStream == LiveAudio.stream

\* cpal invokes the data callback for a buffer of f frames.
CallbackBegin(f) ==
    /\ LiveStream
    /\ cb.st = "idle"
    /\ budget.callbacks > 0
    /\ budget' = [budget EXCEPT !.callbacks = @ - 1]
    /\ cb' = [st |-> "run", frames |-> f, out |-> <<>>, popped |-> <<>>,
              q0 |-> queues[LiveAudio.queue]]
    /\ UNCHANGED <<coordVars, status, sigVars, queueVars, h, sess, decVars, now>>

\* One iteration of `for frame in out.chunks_mut(channels)`: pop, or use 0,
\* convert, and fill the frame.
WriteFrame(a, q) ==
    LET r == QPop(q)
        v == ConvertSample(a.fmt, UnwrapOr0(r))
    IN  [q |-> r.q, some |-> r.some, frame |-> FillFrame(a.channels, v)]

CallbackFrame ==
    /\ LiveStream
    /\ cb.st = "run"
    /\ Len(cb.out) < cb.frames
    /\ LET a == LiveAudio
           w == WriteFrame(a, queues[a.queue])
       IN  /\ queues' = [queues EXCEPT ![a.queue] = w.q]
           /\ qstat' = [qstat EXCEPT ![a.queue].pops = @ + (IF w.some THEN 1 ELSE 0)]
           /\ cb' = [cb EXCEPT !.out = Append(@, w.frame),
                               !.popped = Append(@, w.some)]
    /\ UNCHANGED <<coordVars, status, sigVars, h, sess, decVars, now, budget>>

\* The callback returns once every frame of the buffer is written.
CallbackEnd ==
    /\ cb.st = "run"
    /\ Len(cb.out) = cb.frames
    /\ cb' = NoCb
    /\ UNCHANGED <<coordVars, status, sigVars, queueVars, h, sess, decVars, now,
                   budget>>

\* ============================================================= decode path
\* offered (history) is what the loop has handed to queue.push for the packet
\* in hand, stored or not, nread (history) how many passes the loop has
\* begun and last (history) what the latest read_rtp and decode came to.
\* log is the error of the "Audio decode stopped: {e}" line the spawned task
\* writes when decode_track_to_queue returns.
NoDec ==
    [st |-> "none", q |-> 0, channels |-> 0, pcm |-> <<>>, n |-> 0, i |-> 0,
     local_dropped |-> 0, dropped |-> 0, last_log |-> 0, offered |-> <<>>,
     nread |-> 0, last |-> "none", log |-> "None"]

\* A decode task as tokio::spawn starts it: the decoder made, nothing read.
NewDec(q, ch, t) ==
    [st |-> "read", q |-> q, channels |-> (IF ch >= 2 THEN 2 ELSE 1),
     pcm |-> <<>>, n |-> 0, i |-> 0, local_dropped |-> 0, dropped |-> 0,
     last_log |-> t, offered |-> <<>>, nread |-> 0, last |-> "none",
     log |-> "None"]

\* Rust's integer division by 2 truncates toward zero.
TruncDiv2(x) == IF x >= 0 THEN x \div 2 ELSE -((-x) \div 2)

\* `as i16` keeps the low 16 bits.
AsI16(x) == ((x + 32768) % 65536) - 32768

\* Downmix adding the two samples in i16.
Downmix_Narrow(l, r) == AsI16(TruncDiv2(AsI16(l + r)))

\* ((l + r) / 2) as i16, computed in i32.
Downmix(l, r) == AsI16(TruncDiv2(l + r))

\* The sample the loop pushes for frame i (0-based) of the decoded buffer.
SampleAt(d, i) ==
    IF d.channels >= 2
    THEN Downmix(d.pcm[2 * i + 1], d.pcm[2 * i + 2])
    ELSE d.pcm[i + 1]

\* What read_rtp and the decoder can hand the loop for a track of ch channels.
PcmFrames(ch) == UNION {[1 .. n * ch -> Samples] : n \in 0 .. MaxFrameLen}

FrameInputs(ch) ==
    {[kind |-> k, pcm |-> <<>>] : k \in {"read_err", "empty", "bad"}}
        \cup {[kind |-> "pcm", pcm |-> p] : p \in PcmFrames(ch)}

\* What a pass of the loop came to: a failed read, an empty payload, a failed
\* decode, a decode of 0 samples ("zero"), or decoded samples.
ReadKind(f) == IF f.kind = "pcm" /\ f.pcm = <<>> THEN "zero" ELSE f.kind

\* A decoded buffer of a track of ch channels: n interleaved frames of i16.
IsPcm(p, ch) ==
    /\ Len(p) % ch = 0
    /\ \A k \in 1 .. Len(p) : p[k] >= -32768 /\ p[k] <= 32767

\* The drop accounting after the push loops: add the packet's drops to the
\* running total and, if the last summary is 5 seconds old, log and reset.
\* AccountDrops without restarting the interval at an emission.
AccountDrops_NoRestart(d, t) ==
    IF d.local_dropped > 0
    THEN LET total == d.dropped + d.local_dropped
         IN  IF t - d.last_log >= LOG_INTERVAL_SECS
             THEN [d |-> [d EXCEPT !.dropped = 0],
                   logged |-> <<[t |-> t, total |-> total]>>]
             ELSE [d |-> [d EXCEPT !.dropped = total], logged |-> <<>>]
    ELSE [d |-> d, logged |-> <<>>]

\* AccountDrops forgetting the drops of a frame that ends between two
\* emissions.
AccountDrops_Forget(d, t) ==
    IF d.local_dropped > 0
    THEN LET total == d.dropped + d.local_dropped
         IN  IF t - d.last_log >= LOG_INTERVAL_SECS
             THEN [d |-> [d EXCEPT !.dropped = 0, !.last_log = t],
                   logged |-> <<[t |-> t, total |-> total]>>]
             ELSE [d |-> d, logged |-> <<>>]
    ELSE [d |-> d, logged |-> <<>>]

AccountDrops(d, t) ==
    IF d.local_dropped > 0
    THEN LET total == d.dropped + d.local_dropped
         IN  IF t - d.last_log >= LOG_INTERVAL_SECS
             THEN [d |-> [d EXCEPT !.dropped = 0, !.last_log = t],
                   logged |-> <<[t |-> t, total |-> total]>>]
             ELSE [d |-> [d EXCEPT !.dropped = total], logged |-> <<>>]
    ELSE [d |-> d, logged |-> <<>>]

\* The task ending without a word.
DecodeStopped_Silent(d, e) == [d EXCEPT !.st = "ended"]

\* decode_track_to_queue returning Err(e) to the task spawned by on_track,
\* which writes the log line "Audio decode stopped: {e}" and ends.
DecodeStopped(d, e) == [d EXCEPT !.st = "ended", !.log = e]

\* One pass of the loop from read_rtp to the start of the push loops.
DecodeRead(c, f) ==
    /\ dec[c].st = "read"
    /\ budget.frames > 0
    /\ f.kind = "pcm" => IsPcm(f.pcm, dec[c].channels)
    /\ f.kind # "read_err" => sess[c].pcOpen
    /\ f.kind = "pcm" => Len(f.pcm) \div dec[c].channels <= budget.pushes
    /\ budget' = [budget EXCEPT
                    !.frames = @ - 1,
                    !.pushes = @ - (IF f.kind = "pcm"
                                    THEN Len(f.pcm) \div dec[c].channels ELSE 0)]
    /\ status' = IF f.kind = "read_err" THEN status
                 ELSE bump_audio_packets(status, 1)
    /\ dec' = [dec EXCEPT ![c] =
                 [(CASE f.kind = "read_err" -> DecodeStopped(@, "read_rtp")
                     [] f.kind = "bad" -> DecodeStopped(@, "opus decode")
                     [] f.kind = "empty" -> @
                     [] Len(f.pcm) = 0 -> @
                     [] OTHER -> [@ EXCEPT !.st = "push", !.pcm = f.pcm,
                                           !.n = Len(f.pcm) \div dec[c].channels,
                                           !.i = 0, !.local_dropped = 0,
                                           !.offered = <<>>])
                  EXCEPT !.nread = @ + 1, !.last = ReadKind(f)]]
    /\ UNCHANGED <<coordVars, sigVars, queueVars, h, sess, ovlog, cb, now>>

\* One iteration of a push loop; the last one is followed by the accounting.
DecodePush(c) ==
    /\ dec[c].st = "push"
    /\ LET d == dec[c]
           r == QPush(queues[d.q], SampleAt(d, d.i))
           d1 == [d EXCEPT !.i = @ + 1,
                           !.local_dropped = @ + (IF r.ok THEN 0 ELSE 1),
                           !.offered = Append(@, SampleAt(d, d.i))]
           a == AccountDrops(d1, now)
       IN  /\ queues' = [queues EXCEPT ![d.q] = r.q]
           /\ qstat' = [qstat EXCEPT ![d.q].pushes = @ + 1,
                                     ![d.q].overflows = @ + (IF r.ok THEN 0 ELSE 1)]
           /\ IF d1.i < d1.n
              THEN dec' = [dec EXCEPT ![c] = d1] /\ ovlog' = ovlog
              ELSE /\ dec' = [dec EXCEPT ![c] = [a.d EXCEPT !.st = "read"]]
                   /\ ovlog' = [ovlog EXCEPT ![c] = @ \o a.logged]
    /\ UNCHANGED <<coordVars, status, sigVars, h, sess, cb, now, budget>>

\* A second passes.
Tick ==
    /\ now < MaxTime
    /\ now' = now + 1
    /\ UNCHANGED <<coordVars, status, sigVars, queueVars, h, sess, decVars, cb,
                   budget>>

\* ================================================================ session
\* One WebSocket connection's run(): its position, the peer connection, the
\* pending ICE buffer, the outbound channel and what went out on the socket.
\* applied is the sequence of add_ice_candidate calls made on the peer
\* connection; arrived is the history of the candidates received and flushed
\* that of how many were added from the pending buffer; last tells whether
\* the latest inbound event was one the loop drops.
NoSess ==
    [st |-> "none", pcOpen |-> FALSE, remote |-> "None", pending |-> <<>>,
     applied |-> <<>>, arrived |-> <<>>, out |-> <<>>, sent |-> <<>>,
     res |-> "None", nsdp |-> 0, ncand |-> 0, flushed |-> 0, last |-> "none"]

\* An outbound SignalMessage: its type and, for a local candidate, its number.
OutMsg(t, n) == [type |-> t, n |-> n]

CandNames == {"a", "b"}
\* sdpMid and sdpMLineIndex as a message carries them (absent, or a value).
MidIdx ==
    {[has_mid |-> FALSE, mid |-> "", has_idx |-> FALSE, idx |-> 0],
     [has_mid |-> TRUE, mid |-> "1", has_idx |-> TRUE, idx |-> -1]}

\* The inbound events of the socket: a text message that parses as a
\* SignalMessage of some type, a malformed text, a close frame, another frame
\* kind, or the end of the stream (None or an error).
SdpMsgs ==
    {[kind |-> "text", msg_type |-> t, sdp |-> d, answer_ok |-> a]
        : t \in {"offer", "answer"}, d \in {"None", "ok", "bad"}, a \in BOOLEAN}
IceMsgs ==
    {[kind |-> "text", msg_type |-> "ice", has_candidate |-> TRUE,
      candidate |-> n, mi |-> m] : n \in CandNames, m \in MidIdx}
        \cup {[kind |-> "text", msg_type |-> "ice", has_candidate |-> FALSE,
               candidate |-> "", mi |-> m] : m \in MidIdx}
OtherMsgs ==
    {[kind |-> "text", msg_type |-> t] : t \in {"ping", "unknown"}}
        \cup {[kind |-> k] : k \in {"malformed", "close", "other", "end"}}

\* `v as u16` of an i32.
AsU16(v) == v % 65536

\* The RTCIceCandidateInit built from an ice message.
IceInit(m) ==
    [candidate |-> m.candidate,
     sdp_mid |-> (IF m.mi.has_mid THEN m.mi.mid ELSE ""),
     sdp_mline_index |-> AsU16(IF m.mi.has_idx THEN m.mi.idx ELSE 0),
     username_fragment |-> ""]

Reverse(q) == [i \in 1 .. Len(q) |-> q[Len(q) + 1 - i]]

\* HandleSdp draining the pending buffer from its end.
HandleSdp_Reversed(s, m) ==
    IF m.sdp = "None" THEN s
    ELSE IF m.sdp = "bad" THEN [s EXCEPT !.st = "returned", !.res = "Err"]
    ELSE LET s1 == [s EXCEPT !.remote = m.msg_type,
                             !.applied = @ \o Reverse(s.pending),
                             !.flushed = @ + Len(s.pending),
                             !.pending = <<>>]
         IN  IF m.msg_type = "offer"
             THEN IF m.answer_ok THEN [s1 EXCEPT !.st = "answer"]
                  ELSE [s1 EXCEPT !.st = "returned", !.res = "Err"]
             ELSE s1

\* handle_signal_message for an offer or answer: the session after it, up to
\* the point where the answer is handed to the outbound channel.
\*   no sdp: nothing happens; a description the peer connection refuses, or an
\*   answer that cannot be made: the error is returned by run() at once, the
\*   peer connection left open; otherwise the remote description is set and
\*   the pending candidates are added in order and the buffer left empty.
HandleSdp(s, m) ==
    IF m.sdp = "None" THEN s
    ELSE IF m.sdp = "bad" THEN [s EXCEPT !.st = "returned", !.res = "Err"]
    ELSE LET s1 == [s EXCEPT !.remote = m.msg_type,
                             !.applied = @ \o s.pending,
                             !.flushed = @ + Len(s.pending),
                             !.pending = <<>>]
         IN  IF m.msg_type = "offer"
             THEN IF m.answer_ok THEN [s1 EXCEPT !.st = "answer"]
                  ELSE [s1 EXCEPT !.st = "returned", !.res = "Err"]
             ELSE s1

\* HandleIce without the test for a remote description.
HandleIce_Eager(s, m) ==
    IF ~m.has_candidate THEN s
    ELSE [s EXCEPT !.arrived = Append(@, IceInit(m)),
                   !.applied = Append(@, IceInit(m))]

\* handle_signal_message for an ice message: buffered while no remote
\* description is set, added to the peer connection otherwise.
HandleIce(s, m) ==
    IF ~m.has_candidate THEN s
    ELSE LET init == IceInit(m)
             s1 == [s EXCEPT !.arrived = Append(@, init)]
         IN  IF s.remote = "None"
             THEN [s1 EXCEPT !.pending = Append(@, init)]
             ELSE [s1 EXCEPT !.applied = Append(@, init)]

\* HandleInbound leaving the loop on a text that does not parse.
HandleInbound_StrictParse(s, m) ==
    CASE m.kind \in {"close", "end", "malformed"} -> [s EXCEPT !.st = "closing"]
      [] m.kind = "other" -> s
      [] m.msg_type \in {"offer", "answer"} -> HandleSdp(s, m)
      [] m.msg_type = "ice" -> HandleIce(s, m)
      [] OTHER -> s

\* One inbound event of the select loop.
HandleInbound(s, m) ==
    CASE m.kind \in {"close", "end"} -> [s EXCEPT !.st = "closing"]
      [] m.kind \in {"malformed", "other"} -> s
      [] m.msg_type \in {"offer", "answer"} -> HandleSdp(s, m)
      [] m.msg_type = "ice" -> HandleIce(s, m)
      [] OTHER -> s

\* The inbound events the loop drops: a text that does not parse, a message
\* of type ping or of a type it does not know, a frame that is not text.
Dropped(m) ==
    \/ m.kind \in {"malformed", "other"}
    \/ m.kind = "text" /\ m.msg_type \notin {"offer", "answer", "ice"}

\* The events the environment may still send to a session.
Inbound(s) ==
    (IF s.nsdp < budget.sdp THEN SdpMsgs ELSE {})
        \cup (IF Len(s.arrived) < budget.ice THEN IceMsgs ELSE {})
        \cup OtherMsgs

sessFrame == <<coordVars, status, sigVars, queueVars, h, decVars, cb, now, budget>>

\* create_peer_connection, then set_pc_state("created").
SessCreate(c, ok) ==
    /\ sess[c].st = "create"
    /\ sess' = [sess EXCEPT ![c] =
                  IF ok THEN [@ EXCEPT !.st = "offer", !.pcOpen = TRUE]
                  ELSE [@ EXCEPT !.st = "returned", !.res = "Err"]]
    /\ status' = IF ok THEN [status EXCEPT !.pc_state = "created"] ELSE status
    /\ UNCHANGED <<coordVars, sigVars, queueVars, h, decVars, cb, now, budget>>

\* create_offer, set_local_description and the offer's send; a failure of any
\* returns the error with the peer connection still open.
SessOffer(c, ok) ==
    /\ sess[c].st = "offer"
    /\ sess' = [sess EXCEPT ![c] =
                  IF ok THEN [@ EXCEPT !.st = "loop", !.sent = Append(@, OutMsg("offer", 0))]
                  ELSE [@ EXCEPT !.st = "returned", !.res = "Err"]]
    /\ UNCHANGED sessFrame

\* The select loop's inbound branch.
SessRecv(c, m) ==
    /\ sess[c].st = "loop"
    /\ m \in Inbound(sess[c])
    /\ sess' = [sess EXCEPT ![c] =
                  [HandleInbound(@, m) EXCEPT
                     !.nsdp = @ + (IF m.kind = "text" /\ m.msg_type \in {"offer", "answer"}
                                   THEN 1 ELSE 0),
                     !.last = IF Dropped(m) THEN "dropped" ELSE "handled"]]
    /\ UNCHANGED sessFrame

\* out_tx.send(answer).await: waits for room in the outbound channel.
SessAnswer(c) ==
    /\ sess[c].st = "answer"
    /\ Len(sess[c].out) < SignalChannelSize
    /\ sess' = [sess EXCEPT ![c] = [@ EXCEPT !.st = "loop",
                                             !.out = Append(@, OutMsg("answer", 0))]]
    /\ UNCHANGED sessFrame

\* The select loop's outbound branch: one message to the socket; a failed send
\* leaves the loop.
SessSend(c, ok) ==
    /\ sess[c].st = "loop"
    /\ sess[c].out # <<>>
    /\ sess' = [sess EXCEPT ![c] =
                  IF ok THEN [@ EXCEPT !.out = Tail(@), !.sent = Append(@, Head(sess[c].out))]
                  ELSE [@ EXCEPT !.out = Tail(@), !.st = "closing"]]
    /\ UNCHANGED sessFrame

\* pc.close() after the loop, and run()'s result.
SessClose(c, ok) ==
    /\ sess[c].st = "closing"
    /\ sess' = [sess EXCEPT ![c] = [@ EXCEPT !.st = "returned", !.pcOpen = FALSE,
                                             !.res = IF ok THEN "Ok" ELSE "Err"]]
    /\ UNCHANGED sessFrame

\* on_ice_candidate: a local candidate goes to the outbound channel (the
\* callback waits while the channel is full); once run() has returned the
\* receiver is gone and the send fails.
LocalCandidate(c) ==
    /\ sess[c].pcOpen
    /\ sess[c].st \notin {"create", "offer"}
    /\ sess[c].ncand < budget.cands
    /\ sess[c].st # "returned" => Len(sess[c].out) < SignalChannelSize
    /\ sess' = [sess EXCEPT ![c] =
                  IF @.st = "returned" THEN [@ EXCEPT !.ncand = @ + 1]
                  ELSE [@ EXCEPT !.ncand = @ + 1,
                                 !.out = Append(@, OutMsg("ice", sess[c].ncand + 1))]]
    /\ UNCHANGED sessFrame

\* on_peer_connection_state_change: the peer connection reports a state,
\* which goes into pc_state.
PcStateChange(c, st) ==
    /\ sess[c].pcOpen
    /\ budget.pcstates > 0
    /\ budget' = [budget EXCEPT !.pcstates = @ - 1]
    /\ status' = [status EXCEPT !.pc_state = st]
    /\ UNCHANGED <<coordVars, sigVars, queueVars, h, sess, decVars, cb, now>>

\* on_track: an audio track starts a decode task on the session's queue (the
\* decoder may fail to initialise, which ends the task at once); a track of
\* another kind is ignored.
TrackAttach(c, kind, ch, ok) ==
    /\ sess[c].pcOpen
    /\ sess[c].remote # "None"
    /\ dec[c].st = "none"
    /\ budget.tracks > 0
    /\ budget' = [budget EXCEPT !.tracks = @ - 1]
    /\ dec' = [dec EXCEPT ![c] =
                 IF kind # "audio" THEN @
                 ELSE IF ok THEN NewDec(act[h[c].sess].queue, ch, now)
                 ELSE DecodeStopped(NewDec(act[h[c].sess].queue, ch, now),
                                    "opus decoder init")]
    /\ UNCHANGED <<coordVars, status, sigVars, queueVars, h, sess, ovlog, cb, now>>

\* ============================================================== signaling
\* SessionState of an activation: the queue, the STUN flag, the guard flag
\* `active` and whether the cancellation token has been cancelled.
NoAct ==
    [exists |-> FALSE, queue |-> 0, use_stun |-> FALSE, active |-> FALSE,
     cancelled |-> FALSE]

\* NewAct dropping the STUN flag.
NewAct_NoStun(q, stun) ==
    [exists |-> TRUE, queue |-> q, use_stun |-> FALSE, active |-> FALSE,
     cancelled |-> FALSE]

\* HttpServer::activate: a new SessionState with its own guard flag and token.
NewAct(q, stun) ==
    [exists |-> TRUE, queue |-> q, use_stun |-> stun, active |-> FALSE,
     cancelled |-> FALSE]

\* Deactivated without the cancel.
Deactivated_NoCancel(ss, a) == a

\* HttpServer::deactivate on the activations: the installed one, if any, has
\* its token cancelled.
Deactivated(ss, a) ==
    IF ss # 0 THEN [a EXCEPT ![ss].cancelled = TRUE] ELSE a

\* A handler's position, the activation it read, how it ended, and (history)
\* whether another handler stood at the same guard when this one took it.
NoHandler == [pc |-> "idle", sess |-> 0, outcome |-> "none", raced |-> FALSE]

hFrame == <<coordVars, queueVars, decVars, cb, now, budget>>

\* WsConnect publishing the client's address before it looks at
\* session_state.
WsConnect_PublishFirst(c) ==
    /\ h[c].pc = "idle"
    /\ c > 1 => h[c - 1].pc # "idle"
    /\ h' = [h EXCEPT ![c] =
               IF session_state = 0
               THEN [@ EXCEPT !.pc = "done", !.outcome = "rejected_inactive"]
               ELSE [@ EXCEPT !.pc = "guard", !.sess = session_state]]
    /\ status' = [status EXCEPT !.client_addr = c]
    /\ UNCHANGED <<hFrame, sigVars, sess>>

\* A WebSocket is upgraded and the handler reads session_state: None rejects.
WsConnect(c) ==
    /\ h[c].pc = "idle"
    /\ c > 1 => h[c - 1].pc # "idle"
    /\ h' = [h EXCEPT ![c] =
               IF session_state = 0
               THEN [@ EXCEPT !.pc = "done", !.outcome = "rejected_inactive"]
               ELSE [@ EXCEPT !.pc = "guard", !.sess = session_state]]
    /\ UNCHANGED <<hFrame, status, sigVars, sess>>

\* GuardStep clearing the flag on the rejecting path.
GuardStep_Release(active) ==
    IF active THEN [pass |-> FALSE, active |-> FALSE]
    ELSE [pass |-> TRUE, active |-> TRUE]

\* GuardStep without the test of the flag.
GuardStep_NoCheck(active) == [pass |-> TRUE, active |-> TRUE]

\* What the guard block does with the flag it finds, under the flag's lock:
\* a set flag rejects, a clear one is set.
GuardStep(active) ==
    IF active THEN [pass |-> FALSE, active |-> active]
    ELSE [pass |-> TRUE, active |-> TRUE]

WsGuard(c) ==
    /\ h[c].pc = "guard"
    /\ LET g == h[c].sess
           r == GuardStep(act[g].active)
       IN  /\ act' = [act EXCEPT ![g].active = r.active]
           /\ h' = [h EXCEPT ![c] =
                      [(IF r.pass THEN [@ EXCEPT !.pc = "pub_connected"]
                        ELSE [@ EXCEPT !.pc = "done", !.outcome = "rejected_busy"])
                       EXCEPT !.raced = \E d \in Conns \ {c} :
                                           h[d].pc = "guard" /\ h[d].sess = g]]
    /\ UNCHANGED <<hFrame, status, session_state, sess>>

\* set_client_connected(true), set_client_addr(Some(ip)), set_pc_state("new"),
\* then run() is entered.
WsPubConnected(c) ==
    /\ h[c].pc = "pub_connected"
    /\ status' = [status EXCEPT !.client_connected = TRUE]
    /\ h' = [h EXCEPT ![c].pc = "pub_addr"]
    /\ UNCHANGED <<hFrame, sigVars, sess>>

WsPubAddr(c) ==
    /\ h[c].pc = "pub_addr"
    /\ status' = [status EXCEPT !.client_addr = c]
    /\ h' = [h EXCEPT ![c].pc = "pub_state"]
    /\ UNCHANGED <<hFrame, sigVars, sess>>

WsPubState(c) ==
    /\ h[c].pc = "pub_state"
    /\ status' = [status EXCEPT !.pc_state = "new"]
    /\ h' = [h EXCEPT ![c].pc = "run"]
    /\ sess' = [sess EXCEPT ![c].st = "create"]
    /\ UNCHANGED <<hFrame, sigVars>>

\* run() has returned: an error goes to last_error.
WsEndError(c) ==
    /\ h[c].pc = "run"
    /\ sess[c].st = "returned"
    /\ status' = IF sess[c].res = "Err"
                 THEN [status EXCEPT !.last_error = "session"] ELSE status
    /\ h' = [h EXCEPT ![c].pc = "end_connected"]
    /\ UNCHANGED <<hFrame, sigVars, sess>>

WsEndConnected(c) ==
    /\ h[c].pc = "end_connected"
    /\ status' = [status EXCEPT !.client_connected = FALSE]
    /\ h' = [h EXCEPT ![c].pc = "end_addr"]
    /\ UNCHANGED <<hFrame, sigVars, sess>>

WsEndAddr(c) ==
    /\ h[c].pc = "end_addr"
    /\ status' = [status EXCEPT !.client_addr = 0]
    /\ h' = [h EXCEPT ![c].pc = "end_state"]
    /\ UNCHANGED <<hFrame, sigVars, sess>>

WsEndState(c) ==
    /\ h[c].pc = "end_state"
    /\ status' = [status EXCEPT !.pc_state = "None"]
    /\ h' = [h EXCEPT ![c].pc = "release"]
    /\ UNCHANGED <<hFrame, sigVars, sess>>

\* WsRelease leaving the flag set after a session that returned an error.
WsRelease_OkOnly(c) ==
    /\ h[c].pc = "release"
    /\ act' = IF sess[c].res = "Err" THEN act
              ELSE [act EXCEPT ![h[c].sess].active = FALSE]
    /\ h' = [h EXCEPT ![c] = [@ EXCEPT !.pc = "done", !.outcome = "served"]]
    /\ UNCHANGED <<hFrame, status, session_state, sess>>

\* The guard flag is cleared.
WsRelease(c) ==
    /\ h[c].pc = "release"
    /\ act' = [act EXCEPT ![h[c].sess].active = FALSE]
    /\ h' = [h EXCEPT ![c] = [@ EXCEPT !.pc = "done", !.outcome = "served"]]
    /\ UNCHANGED <<hFrame, status, session_state, sess>>

\* ============================================================ coordinator
Cmd(t, d, u) == [type |-> t, device |-> d, use_stun |-> u]
NoCmd == Cmd("none", "None", FALSE)

\* The commands the control plane sends; a device is a name or None.
Commands ==
    {Cmd("Start", "None", TRUE), Cmd("Start", "Speakers", FALSE),
     Cmd("Stop", "None", FALSE), Cmd("ChangeOutputDevice", "Cable", FALSE)}

\* The stream configuration each device ends up with.
DeviceConfig(name) == pick_output_config(name).cfg

\* AudioOutput::start succeeding for a device name on a queue.
StartAudio(name, q) ==
    LET cfg == DeviceConfig(ResolveDevice(name))
    IN  OpenAudio(name, cfg, q)

\* The loop between commands; r is a Running taken out of `running`, audio a
\* stream opened and not yet stored.
IdleCoord ==
    [pc |-> "idle", cmd |-> NoCmd, r |-> NoRunning, audio |-> StoppedAudio,
     old_device |-> ""]

\* CoreController::send.
Submit(cmd) ==
    /\ Len(submitted) < budget.cmds
    /\ cmds' = Append(cmds, cmd)
    /\ submitted' = Append(submitted, cmd)
    /\ UNCHANGED <<coord, coordLog, running, nstarts, status, sigVars, queueVars,
                   h, sess, decVars, cb, now, budget, app, host>>

\* rx.recv() on the channel: the oldest command, and what stays queued.
RecvCmd(q) == [cmd |-> Head(q), rest |-> Tail(q)]

\* AtRecv for a loop that takes a command at any point.
AtRecv_Any(co) == TRUE

\* Whether the loop is at rx.recv().
AtRecv(co) == co.pc = "idle"

LogBegin(cmd) == [ev |-> "begin", cmd |-> cmd]
LogEnd(cmd) == [ev |-> "end", cmd |-> cmd]

\* The loop receives a command and runs it up to its first await.
\*   Start, Stop: running.take().
\*   ChangeOutputDevice: with a run, the old stream is dropped and the
\*   stopped placeholder stored; without one the command does nothing.
CoordRecv ==
    /\ AtRecv(coord)
    /\ cmds # <<>>
    /\ LET rc == RecvCmd(cmds)
           cmd == rc.cmd
       IN  /\ cmds' = rc.rest
           /\ CASE cmd.type = "Start" ->
                    /\ coord' = [IdleCoord EXCEPT
                                   !.pc = IF running.some THEN "start_deactivate"
                                          ELSE "start_clear",
                                   !.cmd = cmd, !.r = running]
                    /\ running' = NoRunning
                    /\ coordLog' = Append(coordLog, LogBegin(cmd))
                    /\ cb' = cb
                    /\ qstat' = qstat
                [] cmd.type = "Stop" ->
                    /\ coord' = [IdleCoord EXCEPT
                                   !.pc = IF running.some THEN "stop_deactivate"
                                          ELSE "stop_reset",
                                   !.cmd = cmd, !.r = running]
                    /\ running' = NoRunning
                    /\ coordLog' = Append(coordLog, LogBegin(cmd))
                    /\ cb' = cb
                    /\ qstat' = qstat
                [] OTHER ->
                    IF running.some
                    THEN /\ coord' = [IdleCoord EXCEPT
                                        !.pc = "chg_sleep", !.cmd = cmd,
                                        !.old_device = running.audio.device_name]
                         /\ running' = [running EXCEPT !.audio = StoppedAudio]
                         /\ coordLog' = Append(coordLog, LogBegin(cmd))
                         /\ cb' = NoCb
                         /\ qstat' = [qstat EXCEPT ![running.queue].mark =
                                        qstat[running.queue].pushes
                                            - qstat[running.queue].overflows]
                    ELSE /\ coord' = IdleCoord
                         /\ running' = running
                         /\ coordLog' = coordLog \o <<LogBegin(cmd), LogEnd(cmd)>>
                         /\ cb' = cb
                         /\ qstat' = qstat
    /\ UNCHANGED <<submitted, nstarts, status, sigVars, queues, h, sess,
                   decVars, now, budget, app, host>>

coFrame == <<cmds, submitted, h, sess, decVars, now, budget, app, host>>

\* Start with a run active: http_server.deactivate().await.
CoordStartDeactivate ==
    /\ coord.pc = "start_deactivate"
    /\ session_state' = 0
    /\ act' = Deactivated(session_state, act)
    /\ coord' = [coord EXCEPT !.pc = "start_unset"]
    /\ UNCHANGED <<coFrame, coordLog, running, nstarts, status, queueVars, cb>>

\* CoordStartUnset leaving server_running as it was.
CoordStartUnset_KeepRunning ==
    /\ coord.pc = "start_unset"
    /\ coord' = [coord EXCEPT !.pc = "start_clear", !.r = NoRunning]
    /\ cb' = NoCb
    /\ UNCHANGED <<coFrame, coordLog, running, nstarts, status, sigVars, queueVars>>

\* mdns.shutdown(), set_server_running(false), and the old Running dropped,
\* its stream with it.
CoordStartUnset ==
    /\ coord.pc = "start_unset"
    /\ status' = [status EXCEPT !.server_running = FALSE]
    /\ coord' = [coord EXCEPT !.pc = "start_clear", !.r = NoRunning]
    /\ cb' = NoCb
    /\ UNCHANGED <<coFrame, coordLog, running, nstarts, sigVars, queueVars>>

\* set_last_error(None).
CoordStartClear ==
    /\ coord.pc = "start_clear"
    /\ status' = [status EXCEPT !.last_error = "None"]
    /\ coord' = [coord EXCEPT !.pc = "start_open"]
    /\ UNCHANGED <<coFrame, coordLog, running, nstarts, sigVars, queueVars, cb>>

\* A new queue and AudioOutput::start on it; a failure is recorded and ends
\* the command.
CoordStartOpen(ok) ==
    /\ coord.pc = "start_open"
    /\ ok => CanStart(coord.cmd.device)
    /\ nstarts' = nstarts + 1
    /\ queues' = [queues EXCEPT ![nstarts + 1] = <<>>]
    /\ qstat' = [qstat EXCEPT ![nstarts + 1] = NoStat]
    /\ IF ok
       THEN /\ coord' = [coord EXCEPT
                           !.pc = "start_activate",
                           !.audio = StartAudio(coord.cmd.device, nstarts + 1)]
            /\ UNCHANGED <<status, coordLog>>
       ELSE /\ coord' = IdleCoord
            /\ status' = [status EXCEPT !.last_error = "audio"]
            /\ coordLog' = Append(coordLog, LogEnd(coord.cmd))
    /\ UNCHANGED <<coFrame, running, sigVars, cb>>

\* http_server.activate(queue, use_stun).await.
CoordStartActivate ==
    /\ coord.pc = "start_activate"
    /\ act' = [act EXCEPT ![nstarts] = NewAct(nstarts, coord.cmd.use_stun)]
    /\ session_state' = nstarts
    /\ coord' = [coord EXCEPT !.pc = "start_finish"]
    /\ UNCHANGED <<coFrame, coordLog, running, nstarts, status, queueVars, cb>>

\* CoordStartFinish keeping no record of the run.
CoordStartFinish_NoRecord(m) ==
    /\ coord.pc = "start_finish"
    /\ status' = [status EXCEPT !.server_running = TRUE]
    /\ coord' = IdleCoord
    /\ coordLog' = Append(coordLog, LogEnd(coord.cmd))
    /\ UNCHANGED <<coFrame, running, nstarts, sigVars, queueVars, cb>>

\* MdnsRegistration::register, set_server_running(true) and
\* running = Some(..).
CoordStartFinish(m) ==
    /\ coord.pc = "start_finish"
    /\ status' = [status EXCEPT !.server_running = TRUE]
    /\ running' = SomeRunning(coord.audio, nstarts, nstarts, m)
    /\ coord' = IdleCoord
    /\ coordLog' = Append(coordLog, LogEnd(coord.cmd))
    /\ UNCHANGED <<coFrame, nstarts, sigVars, queueVars, cb>>

\* Stop with a run active: http_server.deactivate().await.
CoordStopDeactivate ==
    /\ coord.pc = "stop_deactivate"
    /\ session_state' = 0
    /\ act' = Deactivated(session_state, act)
    /\ coord' = [coord EXCEPT !.pc = "stop_reset"]
    /\ UNCHANGED <<coFrame, coordLog, running, nstarts, status, queueVars, cb>>

\* CoordStopReset reporting an error when there was nothing to stop.
CoordStopReset_Complain ==
    /\ coord.pc = "stop_reset"
    /\ status' = IF coord.r.some THEN reset_connection(status)
                 ELSE [reset_connection(status) EXCEPT !.last_error = "stop"]
    /\ coord' = IdleCoord
    /\ cb' = IF coord.r.some THEN NoCb ELSE cb
    /\ coordLog' = Append(coordLog, LogEnd(coord.cmd))
    /\ UNCHANGED <<coFrame, running, nstarts, sigVars, queueVars>>

\* The taken Running (if any) is dropped, its stream with it, and
\* reset_connection() runs.
CoordStopReset ==
    /\ coord.pc = "stop_reset"
    /\ status' = reset_connection(status)
    /\ coord' = IdleCoord
    /\ cb' = IF coord.r.some THEN NoCb ELSE cb
    /\ coordLog' = Append(coordLog, LogEnd(coord.cmd))
    /\ UNCHANGED <<coFrame, running, nstarts, sigVars, queueVars>>

\* CoordChgWake taking the signaling activation down as a Start would.
CoordChgWake_Deactivate ==
    /\ coord.pc = "chg_sleep"
    /\ session_state' = 0
    /\ act' = Deactivated(session_state, act)
    /\ coord' = [coord EXCEPT !.pc = "chg_drain"]
    /\ UNCHANGED <<coFrame, coordLog, running, nstarts, status, queueVars, cb>>

\* The 50 ms sleep of the device switch is over.
CoordChgWake ==
    /\ coord.pc = "chg_sleep"
    /\ coord' = [coord EXCEPT !.pc = "chg_drain"]
    /\ UNCHANGED <<coFrame, coordLog, running, nstarts, status, sigVars,
                   queueVars, cb>>

\* One iteration of `while queue_ref.pop().is_some() {}` that finds a sample.
CoordChgDrain ==
    /\ coord.pc = "chg_drain"
    /\ queues[running.queue] # <<>>
    /\ queues' = [queues EXCEPT ![running.queue] = QPop(@).q]
    /\ qstat' = [qstat EXCEPT ![running.queue].pops = @ + 1]
    /\ UNCHANGED <<coFrame, coord, coordLog, running, nstarts, status, sigVars, cb>>

\* CoordChgOpen keeping quiet about a device that did not open.
CoordChgOpen_Silent(ok, fallback_ok) ==
    /\ coord.pc = "chg_drain"
    /\ queues[running.queue] = <<>>
    /\ fallback_ok => ~ok /\ coord.old_device # "(stopped)"
    /\ ok => CanStart(coord.cmd.device)
    /\ fallback_ok => CanStart(coord.old_device)
    /\ running' =
         IF ok
         THEN [running EXCEPT !.audio = StartAudio(coord.cmd.device, running.queue)]
         ELSE IF fallback_ok
         THEN [running EXCEPT !.audio = StartAudio(coord.old_device, running.queue)]
         ELSE running
    /\ coord' = IdleCoord
    /\ coordLog' = Append(coordLog, LogEnd(coord.cmd))
    /\ UNCHANGED <<coFrame, nstarts, status, sigVars, queueVars, cb>>

\* CoordChgOpen without waiting for the drain to empty the queue.
CoordChgOpen_NoDrain(ok, fallback_ok) ==
    /\ coord.pc = "chg_drain"
    /\ fallback_ok => ~ok /\ coord.old_device # "(stopped)"
    /\ ok => CanStart(coord.cmd.device)
    /\ fallback_ok => CanStart(coord.old_device)
    /\ running' =
         IF ok
         THEN [running EXCEPT !.audio = StartAudio(coord.cmd.device, running.queue)]
         ELSE IF fallback_ok
         THEN [running EXCEPT !.audio = StartAudio(coord.old_device, running.queue)]
         ELSE running
    /\ status' = IF ok THEN status ELSE [status EXCEPT !.last_error = "audio"]
    /\ coord' = IdleCoord
    /\ coordLog' = Append(coordLog, LogEnd(coord.cmd))
    /\ UNCHANGED <<coFrame, nstarts, sigVars, queueVars, cb>>

\* The drain finds the queue empty, and the new device is opened on the same
\* queue; if that fails the error is recorded and the old device is tried,
\* and if that fails too the stopped placeholder stays.
CoordChgOpen(ok, fallback_ok) ==
    /\ coord.pc = "chg_drain"
    /\ queues[running.queue] = <<>>
    /\ fallback_ok => ~ok /\ coord.old_device # "(stopped)"
    /\ ok => CanStart(coord.cmd.device)
    /\ fallback_ok => CanStart(coord.old_device)
    /\ running' =
         IF ok
         THEN [running EXCEPT !.audio = StartAudio(coord.cmd.device, running.queue)]
         ELSE IF fallback_ok
         THEN [running EXCEPT !.audio = StartAudio(coord.old_device, running.queue)]
         ELSE running
    /\ status' = IF ok THEN status ELSE [status EXCEPT !.last_error = "audio"]
    /\ coord' = IdleCoord
    /\ coordLog' = Append(coordLog, LogEnd(coord.cmd))
    /\ UNCHANGED <<coFrame, nstarts, sigVars, queueVars, cb>>

\* ============================================================ application
\* The fields of Status in the order snapshot() copies them (log_lines is
\* left out).
StatusFields ==
    <<"server_running", "ws_url", "client_connected", "client_addr", "pc_state",
      "last_error", "audio_packets">>

\* App as launch_app builds it: the first enumerated device selected (None
\* if there is none), STUN off, a first snapshot of the status. pc, copied
\* and snap are the position of a snapshot() call in progress and the
\* StatusSnapshot it is building; at (history) is the shared status as it
\* stood when the latest snapshot() took the lock.
NewApp(first) ==
    [pc |-> "idle", selected_output |-> first, use_stun |-> FALSE,
     status |-> InitStatus, copied |-> 0, snap |-> InitStatus, at |-> InitStatus]

\* The application once it has sent cmd as its first command.
AppAfter(cmd) ==
    [NewApp(cmd.device) EXCEPT !.use_stun = cmd.use_stun]

\* StatusLockFree for a lock that excludes nobody.
StatusLock_NoExclusion == TRUE

\* Whether self.inner.lock() succeeds at once for a writer: the mutex is held
\* across steps only by a snapshot() in progress (every setter takes it for
\* one assignment, reset_connection for its four).
StatusLockFree == app.pc # "snap"

\* A step of the core under the status mutex: one that writes the status
\* waits while snapshot() holds the lock.
WithStatusLock(A) == A /\ (status' # status => StatusLockFree)

appFrame ==
    <<coord, coordLog, running, nstarts, status, sigVars, queueVars, h, sess,
      decVars, cb, now, host>>

\* Message::Tick, self.shared.snapshot(): the lock is taken.
AppSnapBegin ==
    /\ app.pc = "idle"
    /\ budget.ticks > 0
    /\ budget' = [budget EXCEPT !.ticks = @ - 1]
    /\ app' = [app EXCEPT !.pc = "snap", !.copied = 0, !.at = status]
    /\ UNCHANGED <<appFrame, cmds, submitted>>

\* snapshot() copies the next field into the StatusSnapshot it builds.
AppSnapCopy ==
    /\ app.pc = "snap"
    /\ app.copied < Len(StatusFields)
    /\ LET f == StatusFields[app.copied + 1]
       IN  app' = [app EXCEPT !.copied = @ + 1, !.snap[f] = status[f]]
    /\ UNCHANGED <<appFrame, cmds, submitted, budget>>

\* snapshot() returns, releasing the lock, and Tick stores the result in
\* self.status.
AppSnapEnd ==
    /\ app.pc = "snap"
    /\ app.copied = Len(StatusFields)
    /\ app' = [app EXCEPT !.pc = "idle", !.copied = 0, !.status = app.snap]
    /\ UNCHANGED <<appFrame, cmds, submitted, budget>>

\* The application sends a command through its controller.
AppSend(cmd) ==
    /\ Len(submitted) < budget.cmds
    /\ cmds' = Append(cmds, cmd)
    /\ submitted' = Append(submitted, cmd)

\* Message::OutputDeviceChanged(device): the pick is stored, and sent to the
\* core only if the last snapshot shows the server running.
AppOutputDeviceChanged(d) ==
    /\ app.pc = "idle"
    /\ budget.ui > 0
    /\ budget' = [budget EXCEPT !.ui = @ - 1]
    /\ app' = [app EXCEPT !.selected_output = d]
    /\ IF app.status.server_running
       THEN AppSend(Cmd("ChangeOutputDevice", d, FALSE))
       ELSE UNCHANGED <<cmds, submitted>>
    /\ UNCHANGED appFrame

\* Message::UseStunChanged(checked).
AppUseStunChanged(b) ==
    /\ app.pc = "idle"
    /\ budget.ui > 0
    /\ b # app.use_stun
    /\ budget' = [budget EXCEPT !.ui = @ - 1]
    /\ app' = [app EXCEPT !.use_stun = b]
    /\ UNCHANGED <<appFrame, cmds, submitted>>

\* AppStartServer sending no device name.
AppStartServer_Default ==
    /\ app.pc = "idle"
    /\ budget.ui > 0
    /\ budget' = [budget EXCEPT !.ui = @ - 1]
    /\ AppSend(Cmd("Start", "None", app.use_stun))
    /\ UNCHANGED <<appFrame, app>>

\* Message::StartServer: Start with the selected device and the STUN setting.
\* (The button is pressed on a view that may be one Tick old; update() does
\* not look at the status.)
AppStartServer ==
    /\ app.pc = "idle"
    /\ budget.ui > 0
    /\ budget' = [budget EXCEPT !.ui = @ - 1]
    /\ AppSend(Cmd("Start", app.selected_output, app.use_stun))
    /\ UNCHANGED <<appFrame, app>>

\* Message::StopServer.
AppStopServer ==
    /\ app.pc = "idle"
    /\ budget.ui > 0
    /\ budget' = [budget EXCEPT !.ui = @ - 1]
    /\ AppSend(Cmd("Stop", "None", FALSE))
    /\ UNCHANGED <<appFrame, app>>

\* ========================================================= specifications
NoBudget ==
    [frames |-> 0, pushes |-> 0, callbacks |-> 0, sdp |-> 0, ice |-> 0,
     cands |-> 0, pcstates |-> 0, tracks |-> 0, cmds |-> 0, ui |-> 0,
     ticks |-> 0]

\* The process after spawn_runtime has started the HTTP server: nothing
\* running, no activation, no connection.
Init ==
    /\ host = StdHost
    /\ cmds = <<>>
    /\ submitted = <<>>
    /\ coord = IdleCoord
    /\ coordLog = <<>>
    /\ running = NoRunning
    /\ status = InitStatus
    /\ session_state = 0
    /\ act = [g \in Ids |-> NoAct]
    /\ queues = [g \in Ids |-> <<>>]
    /\ nstarts = 0
    /\ h = [c \in Conns |-> NoHandler]
    /\ sess = [c \in Conns |-> NoSess]
    /\ dec = [c \in Conns |-> NoDec]
    /\ cb = NoCb
    /\ now = 0
    /\ qstat = [g \in Ids |-> NoStat]
    /\ ovlog = [c \in Conns |-> <<>>]
    /\ budget = [NoBudget EXCEPT !.cmds = MaxCmds]
    /\ app = NewApp("Speakers")

\* The state Start{device, use_stun} leaves when it is the first command and
\* the device opens: a run on queue 1 and activation 1, no client.
Started(cmd) ==
    /\ host = StdHost
    /\ cmds = <<>>
    /\ submitted = <<cmd>>
    /\ coord = IdleCoord
    /\ coordLog = <<LogBegin(cmd), LogEnd(cmd)>>
    /\ running = SomeRunning(StartAudio(cmd.device, 1), 1, 1, TRUE)
    /\ status = [InitStatus EXCEPT !.server_running = TRUE]
    /\ session_state = 1
    /\ act = [g \in Ids |-> IF g = 1 THEN NewAct(1, cmd.use_stun) ELSE NoAct]
    /\ queues = [g \in Ids |-> <<>>]
    /\ nstarts = 1
    /\ h = [c \in Conns |-> NoHandler]
    /\ sess = [c \in Conns |-> NoSess]
    /\ dec = [c \in Conns |-> NoDec]
    /\ cb = NoCb
    /\ now = 0
    /\ qstat = [g \in Ids |-> NoStat]
    /\ ovlog = [c \in Conns |-> <<>>]
    /\ app = AppAfter(cmd)

\* The state once connection 1 has passed the guard of that activation, has
\* published its status and its run() has sent the offer: the select loop,
\* before the remote has answered (remote = "None") or after its answer.
InLoop(cmd, remote) ==
    /\ host = StdHost
    /\ cmds = <<>>
    /\ submitted = <<cmd>>
    /\ coord = IdleCoord
    /\ coordLog = <<LogBegin(cmd), LogEnd(cmd)>>
    /\ running = SomeRunning(StartAudio(cmd.device, 1), 1, 1, TRUE)
    /\ status = [InitStatus EXCEPT !.server_running = TRUE,
                                   !.client_connected = TRUE,
                                   !.client_addr = 1, !.pc_state = "created"]
    /\ session_state = 1
    /\ act = [g \in Ids |-> IF g = 1
                            THEN [NewAct(1, cmd.use_stun) EXCEPT !.active = TRUE]
                            ELSE NoAct]
    /\ queues = [g \in Ids |-> <<>>]
    /\ nstarts = 1
    /\ h = [c \in Conns |-> IF c = 1 THEN [NoHandler EXCEPT !.pc = "run", !.sess = 1]
                            ELSE NoHandler]
    /\ sess = [c \in Conns |->
                 IF c = 1 THEN [NoSess EXCEPT !.st = "loop", !.pcOpen = TRUE,
                                              !.remote = remote,
                                              !.nsdp = IF remote = "None" THEN 0 ELSE 1,
                                              !.sent = <<OutMsg("offer", 0)>>]
                 ELSE NoSess]
    /\ dec = [c \in Conns |-> NoDec]
    /\ cb = NoCb
    /\ now = 0
    /\ qstat = [g \in Ids |-> NoStat]
    /\ ovlog = [c \in Conns |-> <<>>]
    /\ app = AppAfter(cmd)

\* The command loop. The drain of a device switch finds the queue empty
\* where no decode task runs; CoordChgDrain is its iteration that pops.
Coordinator ==
    \/ \E cmd \in Commands : Submit(cmd)
    \/ CoordRecv
    \/ CoordStartDeactivate
    \/ CoordStartUnset
    \/ CoordStartClear
    \/ \E ok \in BOOLEAN : CoordStartOpen(ok)
    \/ CoordStartActivate
    \/ CoordStartFinish(TRUE)
    \/ CoordStopDeactivate
    \/ CoordStopReset
    \/ CoordChgWake
    \/ \E ok, fb \in BOOLEAN : CoordChgOpen(ok, fb)

Handler(c) ==
    \/ WsConnect(c)
    \/ WsGuard(c)
    \/ WsPubConnected(c)
    \/ WsPubAddr(c)
    \/ WsPubState(c)
    \/ WsEndError(c)
    \/ WsEndConnected(c)
    \/ WsEndAddr(c)
    \/ WsEndState(c)
    \/ WsRelease(c)

\* run() as the handler sees it: entered, in its loop, returned.
SessionLife(c) ==
    \/ \E ok \in BOOLEAN : SessCreate(c, ok)
    \/ \E ok \in BOOLEAN : SessOffer(c, ok)
    \/ \E m \in Inbound(sess[c]) : SessRecv(c, m)
    \/ \E ok \in BOOLEAN : SessClose(c, ok)

\* The select loop with its signaling traffic.
SessionLoop(c) ==
    \/ \E m \in Inbound(sess[c]) : SessRecv(c, m)
    \/ SessAnswer(c)
    \/ \E ok \in BOOLEAN : SessSend(c, ok)
    \/ \E ok \in BOOLEAN : SessClose(c, ok)
    \/ LocalCandidate(c)

Media(c) ==
    \/ \E k \in {"audio", "video"}, ch \in {1, 2}, ok \in BOOLEAN :
          TrackAttach(c, k, ch, ok)
    \/ \E f \in FrameInputs(dec[c].channels) : DecodeRead(c, f)
    \/ DecodePush(c)

Callback ==
    \/ \E f \in 1 .. MaxCbFrames : CallbackBegin(f)
    \/ CallbackFrame
    \/ CallbackEnd

\* ---- the life cycle: commands, connections, sessions from entry to return.
\* The signaling traffic inside a session and the media path are the subject
\* of SpecIce and SpecQueue.
Next ==
    \/ Coordinator
    \/ \E c \in Conns : Handler(c) \/ SessionLife(c)

Spec == Init /\ [][Next]_vars

\* What the runtime does on its own: every step but the control plane's
\* sends, the arrival of connections and the remote peer's messages.
CoordStep ==
    \/ CoordRecv
    \/ CoordStartDeactivate
    \/ CoordStartUnset
    \/ CoordStartClear
    \/ \E ok \in BOOLEAN : CoordStartOpen(ok)
    \/ CoordStartActivate
    \/ CoordStartFinish(TRUE)
    \/ CoordStopDeactivate
    \/ CoordStopReset
    \/ CoordChgWake
    \/ \E ok, fb \in BOOLEAN : CoordChgOpen(ok, fb)

HandlerStep(c) ==
    \/ WsGuard(c)
    \/ WsPubConnected(c)
    \/ WsPubAddr(c)
    \/ WsPubState(c)
    \/ WsEndError(c)
    \/ WsEndConnected(c)
    \/ WsEndAddr(c)
    \/ WsEndState(c)
    \/ WsRelease(c)
    \/ \E ok \in BOOLEAN : SessCreate(c, ok)
    \/ \E ok \in BOOLEAN : SessOffer(c, ok)
    \/ \E ok \in BOOLEAN : SessClose(c, ok)

\* The same life cycle with the tokio runtime's scheduling: a task that can
\* step does step.
FairSpec ==
    /\ Init
    /\ [][Next]_vars
    /\ WF_vars(CoordStep)
    /\ \A c \in Conns : WF_vars(HandlerStep(c))

\* ---- the guard: connections racing on one activation.
InitGuard ==
    /\ Started(Cmd("Start", "Speakers", FALSE))
    /\ budget = NoBudget

NextGuard == \E c \in Conns : Handler(c) \/ SessionLife(c)

SpecGuard == InitGuard /\ [][NextGuard]_vars

\* ---- the command loop next to one connection.
NextCoord == Coordinator \/ Handler(1) \/ SessionLife(1)

InitCoord ==
    /\ host = StdHost
    /\ cmds = <<>>
    /\ submitted = <<>>
    /\ coord = IdleCoord
    /\ coordLog = <<>>
    /\ running = NoRunning
    /\ status = InitStatus
    /\ session_state = 0
    /\ act = [g \in Ids |-> NoAct]
    /\ queues = [g \in Ids |-> <<>>]
    /\ nstarts = 0
    /\ h = [c \in Conns |-> NoHandler]
    /\ sess = [c \in Conns |-> NoSess]
    /\ dec = [c \in Conns |-> NoDec]
    /\ cb = NoCb
    /\ now = 0
    /\ qstat = [g \in Ids |-> NoStat]
    /\ ovlog = [c \in Conns |-> <<>>]
    /\ budget = [NoBudget EXCEPT !.cmds = MaxCmds + 1]
    /\ app = NewApp("Speakers")

SpecCoord == InitCoord /\ [][NextCoord]_vars

\* ---- one session's signaling loop.
InitIce ==
    /\ InLoop(Cmd("Start", "Speakers", FALSE), "None")
    /\ budget = [NoBudget EXCEPT !.sdp = MaxSdp, !.ice = MaxIce]

\* The loop's inbound side: remote descriptions and candidates, the answer
\* it sends back, and its end.
InboundLoop(c) ==
    \/ \E m \in Inbound(sess[c]) : SessRecv(c, m)
    \/ SessAnswer(c)
    \/ \E ok \in BOOLEAN : SessSend(c, ok)
    \/ \E ok \in BOOLEAN : SessClose(c, ok)

NextIce == InboundLoop(1)

SpecIce == InitIce /\ [][NextIce]_vars

\* ---- the sample queue between one decode task and the output callback.
InitQueue ==
    /\ \E d \in {"None"} \cup Devices : InLoop(Cmd("Start", d, FALSE), "answer")
    /\ budget = [NoBudget EXCEPT !.frames = MaxFrames, !.pushes = MaxPushes,
                                 !.callbacks = MaxCallbacks, !.tracks = 1]

\* A mono track: what is pushed is what was decoded.
MonoMedia(c) ==
    \/ \E k \in {"audio", "video"}, ok \in BOOLEAN : TrackAttach(c, k, 1, ok)
    \/ \E f \in FrameInputs(dec[c].channels) : DecodeRead(c, f)
    \/ DecodePush(c)

NextQueue == MonoMedia(1) \/ Callback

SpecQueue == InitQueue /\ [][NextQueue]_vars

\* ---- one session from its select loop to the handler's cleanup.
HandlerEnd(c) ==
    \/ WsEndError(c)
    \/ WsEndConnected(c)
    \/ WsEndAddr(c)
    \/ WsEndState(c)
    \/ WsRelease(c)

NextSession == InboundLoop(1) \/ HandlerEnd(1)

SpecSession == InitIce /\ [][NextSession]_vars

\* The handler is a task of its own: once run() has returned, its setters
\* and the short lock of the flag are not held up for ever.
FairGuard == SpecGuard /\ \A c \in Conns : WF_vars(HandlerEnd(c))

\* ---- device switches of a run whose session decodes into the queue.
SwitchCommands == {Cmd("ChangeOutputDevice", d, FALSE) : d \in Devices}

InitSwitch ==
    /\ InLoop(Cmd("Start", "Speakers", FALSE), "answer")
    /\ budget = [NoBudget EXCEPT !.cmds = MaxSwitches + 1, !.frames = MaxSwitches,
                                 !.pushes = Capacity, !.callbacks = MaxCallbacks,
                                 !.tracks = 1]

\* The session's mono track, its packets decoding to one sample value: which
\* values are queued makes no difference to a switch.
SwitchFrames ==
    {f \in FrameInputs(1) : \A i \in 1 .. Len(f.pcm) : f.pcm[i] = 2}

SwitchMedia(c) ==
    \/ \E k \in {"audio", "video"}, ok \in BOOLEAN : TrackAttach(c, k, 1, ok)
    \/ \E f \in SwitchFrames : DecodeRead(c, f)
    \/ DecodePush(c)

NextSwitch ==
    \/ \E cmd \in SwitchCommands : Submit(cmd)
    \/ CoordRecv
    \/ CoordChgWake
    \/ CoordChgDrain
    \/ \E ok, fb \in BOOLEAN : CoordChgOpen(ok, fb)
    \/ SwitchMedia(1)
    \/ Callback

SpecSwitch == InitSwitch /\ [][NextSwitch]_vars

\* ---- one callback invocation on a queue nobody pushes to meanwhile.
QueueContents == UNION {[1 .. n -> Samples] : n \in 0 .. Capacity}

InitCallback ==
    \E d \in {"None"} \cup Devices, q \in QueueContents :
        LET cmd == Cmd("Start", d, FALSE)
            base == [g \in Ids |-> <<>>]
        IN  /\ host = StdHost
            /\ cmds = <<>>
            /\ submitted = <<cmd>>
            /\ coord = IdleCoord
            /\ coordLog = <<LogBegin(cmd), LogEnd(cmd)>>
            /\ running = SomeRunning(StartAudio(cmd.device, 1), 1, 1, TRUE)
            /\ status = [InitStatus EXCEPT !.server_running = TRUE,
                                           !.client_connected = TRUE,
                                           !.client_addr = 1, !.pc_state = "created",
                                           !.audio_packets = IF q = <<>> THEN 0 ELSE 1]
            /\ session_state = 1
            /\ act = [g \in Ids |-> IF g = 1
                                    THEN [NewAct(1, FALSE) EXCEPT !.active = TRUE]
                                    ELSE NoAct]
            /\ queues = [base EXCEPT ![1] = q]
            /\ nstarts = 1
            /\ h = [c \in Conns |-> IF c = 1
                                    THEN [NoHandler EXCEPT !.pc = "run", !.sess = 1]
                                    ELSE NoHandler]
            /\ sess = [c \in Conns |->
                         IF c = 1 THEN [NoSess EXCEPT !.st = "loop", !.pcOpen = TRUE,
                                                      !.remote = "answer", !.nsdp = 1,
                                                      !.sent = <<OutMsg("offer", 0)>>]
                         ELSE NoSess]
            /\ dec = [c \in Conns |-> IF c = 1 /\ q # <<>> THEN NewDec(1, 1, 0)
                                      ELSE NoDec]
            /\ cb = NoCb
            /\ now = 0
            /\ qstat = [g \in Ids |-> IF g = 1 THEN [NoStat EXCEPT !.pushes = Len(q)]
                                      ELSE NoStat]
            /\ ovlog = [c \in Conns |-> <<>>]
            /\ budget = [NoBudget EXCEPT !.callbacks = MaxCallbacks + 1]
            /\ app = AppAfter(cmd)

NextCallback == Callback

SpecCallback == InitCallback /\ [][NextCallback]_vars

\* ---- the application driving the command loop.
InitApp ==
    /\ host = StdHost
    /\ cmds = <<>>
    /\ submitted = <<>>
    /\ coord = IdleCoord
    /\ coordLog = <<>>
    /\ running = NoRunning
    /\ status = InitStatus
    /\ session_state = 0
    /\ act = [g \in Ids |-> NoAct]
    /\ queues = [g \in Ids |-> <<>>]
    /\ nstarts = 0
    /\ h = [c \in Conns |-> NoHandler]
    /\ sess = [c \in Conns |-> NoSess]
    /\ dec = [c \in Conns |-> NoDec]
    /\ cb = NoCb
    /\ now = 0
    /\ qstat = [g \in Ids |-> NoStat]
    /\ ovlog = [c \in Conns |-> <<>>]
    /\ budget = [NoBudget EXCEPT !.cmds = MaxUi, !.ui = MaxUi,
                                 !.ticks = MaxTicks]
    /\ app = NewApp("Speakers")

\* update() for the messages that matter to the core. The device list
\* enumerated at launch is Devices, "Speakers" first.
AppUpdate ==
    \/ AppSnapBegin
    \/ AppSnapCopy
    \/ AppSnapEnd
    \/ \E d \in Devices : AppOutputDeviceChanged(d)
    \/ \E b \in BOOLEAN : AppUseStunChanged(b)
    \/ AppStartServer
    \/ AppStopServer

NextApp == AppUpdate \/ WithStatusLock(CoordStep)

SpecApp == InitApp /\ [][NextApp]_vars

\* ---- the decode loop of one stereo track.
\* PCM values of a stereo decoder: the two ends of i16, whose sum is odd and
\* negative, and a value that makes an odd positive sum with the upper end.
StereoSamples == {-32768, 2, 32767}

StereoFrames ==
    {[kind |-> k, pcm |-> <<>>] : k \in {"read_err", "empty", "bad"}}
        \cup {[kind |-> "pcm", pcm |-> p] :
                p \in UNION {[1 .. 2 * n -> StereoSamples] : n \in 0 .. MaxFrameLen}}

InitStereo ==
    /\ InLoop(Cmd("Start", "Speakers", FALSE), "answer")
    /\ budget = [NoBudget EXCEPT !.frames = MaxFrames, !.pushes = MaxFrameLen,
                                 !.tracks = 1]

StereoMedia(c) ==
    \/ \E k \in {"audio", "video"}, ok \in BOOLEAN : TrackAttach(c, k, 2, ok)
    \/ \E f \in StereoFrames : DecodeRead(c, f)
    \/ DecodePush(c)

NextStereo == StereoMedia(1)

SpecStereo == InitStereo /\ [][NextStereo]_vars

\* ---- a session whose decode task fails: the track and its packets, the
\* callback, the signaling loop's inbound events and the handler's end.
InitDecode ==
    /\ InLoop(Cmd("Start", "Speakers", FALSE), "answer")
    /\ budget = [NoBudget EXCEPT !.frames = MaxFrames, !.pushes = Capacity,
                                 !.callbacks = MaxCallbacks, !.tracks = 1,
                                 !.ice = 1]

NextDecode ==
    \/ SwitchMedia(1)
    \/ Callback
    \/ \E m \in Inbound(sess[1]) : SessRecv(1, m)
    \/ \E ok \in BOOLEAN : SessClose(1, ok)
    \/ HandlerEnd(1)

SpecDecode == InitDecode /\ [][NextDecode]_vars

\* ---- trickle ICE: the loop with the peer connection's local candidates
\* arriving on the outbound channel. The runtime polls a task that can run and
\* select! takes a branch that is ready, hence the weak fairness of the
\* session's own steps; the remote's messages and the gathering of candidates
\* are under no obligation.
InitTrickle ==
    /\ InLoop(Cmd("Start", "Speakers", FALSE), "None")
    /\ budget = [NoBudget EXCEPT !.sdp = 1, !.ice = 1, !.cands = MaxCands]

NextTrickle == InboundLoop(1) \/ LocalCandidate(1)

SpecTrickle ==
    /\ InitTrickle
    /\ [][NextTrickle]_vars
    /\ WF_vars(SessAnswer(1))
    /\ WF_vars(\E ok \in BOOLEAN : SessSend(1, ok))
    /\ WF_vars(\E ok \in BOOLEAN : SessClose(1, ok))

\* ---- snapshots beside the writers of the status: a session in its loop
\* with a decode task counting packets and the peer connection reporting a
\* state, the handler's end, and a Stop of the coordinator. Every writer goes
\* through the status mutex.
InitSnapshot ==
    /\ InLoop(Cmd("Start", "Speakers", FALSE), "answer")
    /\ budget = [NoBudget EXCEPT !.ticks = MaxTicks, !.cmds = 2, !.frames = 1,
                                 !.tracks = 1, !.pcstates = 1]

StatusWriters ==
    \/ Submit(Cmd("Stop", "None", FALSE))
    \/ CoordRecv
    \/ CoordStopDeactivate
    \/ CoordStopReset
    \/ TrackAttach(1, "audio", 1, TRUE)
    \/ \E k \in {"empty", "bad"} : DecodeRead(1, [kind |-> k, pcm |-> <<>>])
    \/ PcStateChange(1, "connected")
    \/ SessRecv(1, [kind |-> "close"])
    \/ \E ok \in BOOLEAN : SessClose(1, ok)
    \/ HandlerEnd(1)

NextSnapshot ==
    \/ AppSnapBegin
    \/ AppSnapCopy
    \/ AppSnapEnd
    \/ WithStatusLock(StatusWriters)

SpecSnapshot == InitSnapshot /\ [][NextSnapshot]_vars

\* ---- the output device's configurations: a Start on speakers whose
\* supported ranges and default configuration are the host's to choose.
ConfigChoices ==
    {ConfigRange(rr[1], rr[2], ch, f) :
        rr \in {<<44100, 44100>>, <<44100, 96000>>}, ch \in {1, 2, 6},
        f \in Formats \cup {"I32"}}

HostChoices ==
    {[StdHost EXCEPT !.configs["Speakers"] = q, !.default["Speakers"] = d] :
        q \in UNION {[1 .. n -> ConfigChoices] : n \in 0 .. MaxConfigs},
        d \in {NoConfig, StreamConfig(44100, 2, "F32")}}

\* The command the control plane sends in SpecAudio.
AudioStart == Cmd("Start", "Speakers", FALSE)

InitAudio ==
    /\ AudioStart \in Commands
    /\ host \in HostChoices
    /\ cmds = <<>>
    /\ submitted = <<>>
    /\ coord = IdleCoord
    /\ coordLog = <<>>
    /\ running = NoRunning
    /\ status = InitStatus
    /\ session_state = 0
    /\ act = [g \in Ids |-> NoAct]
    /\ queues = [g \in Ids |-> <<>>]
    /\ nstarts = 0
    /\ h = [c \in Conns |-> NoHandler]
    /\ sess = [c \in Conns |-> NoSess]
    /\ dec = [c \in Conns |-> NoDec]
    /\ cb = NoCb
    /\ now = 0
    /\ qstat = [g \in Ids |-> NoStat]
    /\ ovlog = [c \in Conns |-> <<>>]
    /\ budget = [NoBudget EXCEPT !.cmds = 1]
    /\ app = NewApp("Speakers")

NextAudio ==
    \/ Submit(AudioStart)
    \/ CoordRecv
    \/ CoordStartClear
    \/ \E ok \in BOOLEAN : CoordStartOpen(ok)
    \/ CoordStartActivate
    \/ CoordStartFinish(TRUE)

SpecAudio == InitAudio /\ [][NextAudio]_vars

\* ---- overflow accounting over time: a mono track whose packets fill the
\* queue and overflow it while nothing pops, and the clock.
InitDrops ==
    /\ InLoop(Cmd("Start", "Speakers", FALSE), "answer")
    /\ budget = [NoBudget EXCEPT !.frames = MaxFrames + 2,
                                 !.pushes = (MaxFrames + 2) * MaxFrameLen,
                                 !.tracks = 1]

NextDrops ==
    \/ TrackAttach(1, "audio", 1, TRUE)
    \/ \E f \in SwitchFrames : DecodeRead(1, f)
    \/ DecodePush(1)
    \/ Tick

SpecDrops == InitDrops /\ [][NextDrops]_vars

\* ---- the packet counter across sessions and runs: a session with its
\* decode task, a second connection after it, and Stop and Start commands.
InitPackets ==
    /\ InLoop(Cmd("Start", "Speakers", FALSE), "answer")
    /\ budget = [NoBudget EXCEPT !.frames = MaxFrames, !.pushes = MaxFrames,
                                 !.tracks = 2, !.cmds = 2, !.sdp = 1]

PacketCommands == {Cmd("Stop", "None", FALSE), Cmd("Start", "Speakers", FALSE)}

PacketFrames ==
    {[kind |-> k, pcm |-> <<>>] : k \in {"read_err", "empty", "bad", "pcm"}}
        \cup {[kind |-> "pcm", pcm |-> <<2>>]}

NextPackets ==
    \/ \E cmd \in PacketCommands : Submit(cmd)
    \/ CoordRecv
    \/ CoordStartDeactivate
    \/ CoordStartUnset
    \/ CoordStartClear
    \/ CoordStartOpen(TRUE)
    \/ CoordStartActivate
    \/ CoordStartFinish(TRUE)
    \/ CoordStopDeactivate
    \/ CoordStopReset
    \/ WsConnect(2)
    \/ \E c \in Conns : HandlerStep(c)
    \/ \E c \in Conns :
          SessRecv(c, [kind |-> "text", msg_type |-> "answer", sdp |-> "ok",
                       answer_ok |-> TRUE])
    \/ \E c \in Conns : SessRecv(c, [kind |-> "close"])
    \/ \E c \in Conns : TrackAttach(c, "audio", 1, TRUE)
    \/ \E c \in Conns, f \in PacketFrames : DecodeRead(c, f)
    \/ \E c \in Conns : DecodePush(c)

SpecPackets == InitPackets /\ [][NextPackets]_vars

\* -------------------------------------------- a sender that never stops
\* The passes of the decode loop and of the drain as DecodeRead, DecodePush
\* and CoordChgDrain have them, for a stream of packets without end: no
\* budget of frames, the history counters (nread, qstat) left where they
\* are, and the two 64-bit counters at the width CounterMax.

\* read_rtp hands over a packet that decodes to samples.
StreamRead(c, f) ==
    /\ dec[c].st = "read"
    /\ sess[c].pcOpen
    /\ f.kind = "pcm" /\ f.pcm # <<>>
    /\ IsPcm(f.pcm, dec[c].channels)
    /\ status' = [status EXCEPT !.audio_packets = Min(@ + 1, CounterMax)]
    /\ dec' = [dec EXCEPT ![c] =
                 [@ EXCEPT !.st = "push", !.pcm = f.pcm,
                           !.n = Len(f.pcm) \div dec[c].channels,
                           !.i = 0, !.local_dropped = 0, !.offered = <<>>,
                           !.last = "pcm"]]
    /\ UNCHANGED <<coordVars, sigVars, queueVars, h, sess, ovlog, cb, now, budget>>

\* One iteration of a push loop; the last one is followed by the accounting.
StreamPush(c) ==
    /\ dec[c].st = "push"
    /\ LET d == dec[c]
           r == QPush(queues[d.q], SampleAt(d, d.i))
           d1 == [d EXCEPT !.i = @ + 1,
                           !.local_dropped = @ + (IF r.ok THEN 0 ELSE 1),
                           !.offered = Append(@, SampleAt(d, d.i))]
           a == AccountDrops(d1, now)
       IN  /\ queues' = [queues EXCEPT ![d.q] = r.q]
           /\ IF d1.i < d1.n
              THEN dec' = [dec EXCEPT ![c] = d1] /\ ovlog' = ovlog
              ELSE /\ dec' = [dec EXCEPT ![c] =
                                [a.d EXCEPT !.st = "read",
                                            !.dropped = @ % (CounterMax + 1)]]
                   /\ ovlog' = [ovlog EXCEPT ![c] = @ \o a.logged]
    /\ UNCHANGED <<coordVars, status, sigVars, qstat, h, sess, cb, now, budget>>

\* One iteration of `while queue_ref.pop().is_some() {}` that finds a sample.
StreamDrain ==
    /\ coord.pc = "chg_drain"
    /\ queues[running.queue] # <<>>
    /\ queues' = [queues EXCEPT ![running.queue] = QPop(@).q]
    /\ UNCHANGED <<coFrame, coord, coordLog, running, nstarts, status, sigVars,
                   qstat, cb>>

InitDrain ==
    /\ InLoop(Cmd("Start", "Speakers", FALSE), "answer")
    /\ budget = [NoBudget EXCEPT !.cmds = MaxSwitches + 1, !.tracks = 1]

\* The coordinator's steps of a device switch.
SwitchSteps ==
    \/ CoordRecv
    \/ CoordChgWake
    \/ StreamDrain
    \/ \E ok, fb \in BOOLEAN : CoordChgOpen(ok, fb)

\* The decode task's steps.
StreamSteps ==
    \/ \E f \in SwitchFrames : StreamRead(1, f)
    \/ StreamPush(1)

NextDrain ==
    \/ \E cmd \in SwitchCommands : Submit(cmd)
    \/ TrackAttach(1, "audio", 1, TRUE)
    \/ SwitchSteps
    \/ StreamSteps

\* The command loop and the decode task each run on a thread of the runtime:
\* neither stands still while it has a step to take.
SpecDrain ==
    InitDrain /\ [][NextDrain]_vars /\ WF_vars(SwitchSteps) /\ WF_vars(StreamSteps)

\* ================================================================= claims
\* A connection whose run() has been entered and has not returned.
InSession(c) == h[c].pc = "run" /\ sess[c].st # "returned"

\* A handler that has passed the guard and not yet released it.
HoldsGuard(c) ==
    h[c].pc \in {"pub_connected", "pub_addr", "pub_state", "run",
                 "end_connected", "end_addr", "end_state", "release"}

\* C1: at any time at most one session is in progress, whatever the sequence
\* of Start, Stop, connects and disconnects. Stated as claimed; the code
\* breaks it, since run() never looks at the cancellation token.
C1_AtMostOneSession == Cardinality({c \in Conns : InSession(c)}) <= 1

\* C2: a connection rejected at the guard because a session is active on its
\* activation changes nothing of that session: the guard flag stays set, the
\* status fields keep their values, no queue changes, no peer connection is
\* made, and no other handler or session moves.
C2_RejectIsFrame ==
    [][\A c \in Conns :
          (h[c].pc = "guard" /\ h'[c].outcome = "rejected_busy")
          => /\ act[h[c].sess].active
             /\ act' = act
             /\ session_state' = session_state
             /\ status' = status
             /\ queues' = queues
             /\ sess' = sess
             /\ ~sess'[c].pcOpen
             /\ \A d \in Conns \ {c} : h'[d] = h[d]]_vars

C2_Witness ==
    \E c, d \in Conns :
        /\ h[c].outcome = "rejected_busy"
        /\ InSession(d)
        /\ h[d].sess = h[c].sess
        /\ status.client_connected
        /\ status.client_addr = d

\* C3: on one activation at most one handler is past the guard at a time,
\* also when two of them stand at the guard together; a handler that found
\* the flag set is rejected and holds nothing.
C3_GuardAtomic ==
    /\ \A g \in Ids :
          Cardinality({c \in Conns : h[c].sess = g /\ HoldsGuard(c)}) <= 1
    /\ \A g \in Ids :
          act[g].active <=> \E c \in Conns : h[c].sess = g /\ HoldsGuard(c)
    /\ \A c \in Conns : h[c].outcome = "rejected_busy" => ~HoldsGuard(c)

C3_Witness ==
    \E c, d \in Conns :
        /\ h[c].raced
        /\ h[c].sess = h[d].sess
        /\ HoldsGuard(c)
        /\ h[d].outcome = "rejected_busy"

\* C4: once the coordinator has cancelled an activation (a Stop, or the stop
\* step of a restarting Start), every session of that activation eventually
\* ends, with its handler finished, though the remote peer stays silent.
\* Stated as claimed; the code breaks it.
C4_StopEndsSessions ==
    \A c \in Conns :
        (InSession(c) /\ act[h[c].sess].cancelled) ~> (h[c].pc = "done")

\* C5: when a remote description is accepted, the candidates buffered before
\* it are added to the peer connection in arrival order, right behind what
\* was added before; none is lost, and the buffer is empty afterwards and
\* stays so.
C5_FlushInOrder ==
    [][\A c \in Conns :
          /\ (sess[c].remote = "None" /\ sess'[c].remote # "None")
             => /\ sess'[c].applied = sess[c].applied \o sess[c].pending
                /\ sess[c].pending = sess[c].arrived
                /\ sess'[c].pending = <<>>
          /\ sess[c].remote # "None" => sess'[c].pending = <<>>]_vars

C5_Witness ==
    /\ sess[1].remote # "None"
    /\ sess[1].flushed >= 2
    /\ sess[1].applied[1] # sess[1].applied[2]
    /\ sess[1].pending = <<>>

\* C6: no candidate is added to the peer connection before a remote
\* description is set, and over the whole session the candidates are added
\* in arrival order: while no description is set all of them wait in the
\* buffer, and afterwards the added sequence is the arrival sequence, the
\* buffered ones first.
C6_ApplyOrder ==
    \A c \in Conns :
        /\ sess[c].remote = "None"
           => sess[c].applied = <<>> /\ sess[c].pending = sess[c].arrived
        /\ sess[c].remote # "None"
           => sess[c].applied = sess[c].arrived /\ sess[c].pending = <<>>
        /\ sess[c].flushed <= Len(sess[c].applied)

C6_Witness ==
    /\ sess[1].remote # "None"
    /\ sess[1].flushed >= 1
    /\ Len(sess[1].applied) > sess[1].flushed
    /\ sess[1].applied[sess[1].flushed] # sess[1].applied[sess[1].flushed + 1]

\* C7: commands are processed in submission order, one at a time: the
\* processing log is begin, end, begin, end, ..., its k-th pair is the k-th
\* command submitted, and the coordinator is inside a command exactly when
\* the last entry is a begin, of that command.
C7_CommandsInOrder ==
    /\ \A i \in 1 .. Len(coordLog) :
          /\ coordLog[i].ev = (IF i % 2 = 1 THEN "begin" ELSE "end")
          /\ (i + 1) \div 2 <= Len(submitted)
          /\ coordLog[i].cmd = submitted[(i + 1) \div 2]
    /\ Len(coordLog) % 2 = 1 <=> coord.pc # "idle"
    /\ coord.pc # "idle" => coord.cmd = coordLog[Len(coordLog)].cmd
    /\ Len(cmds) + (Len(coordLog) + 1) \div 2 = Len(submitted)
    /\ \A j \in 1 .. Len(cmds) :
          cmds[j] = submitted[Len(submitted) - Len(cmds) + j]

\* A command waits in the channel while the coordinator sleeps in the device
\* switch of the command before it.
C7_Witness ==
    /\ coord.pc = "chg_sleep"
    /\ Len(cmds) = 1
    /\ cmds[1] # coord.cmd
    /\ Len(coordLog) = 3

\* C8: under every interleaving of pushes and pops no queue holds more than
\* Capacity samples, every push is either stored or reported as overflow, a
\* push is never held up, and a push that finds the queue full fails and
\* leaves the queue as it was.
C8_QueueBounded ==
    /\ \A g \in Ids :
          /\ Len(queues[g]) <= Capacity
          /\ Len(queues[g]) = qstat[g].pushes - qstat[g].overflows - qstat[g].pops
    /\ \A c \in Conns :
          dec[c].st = "push"
          => /\ ENABLED DecodePush(c)
             /\ Len(queues[dec[c].q]) = Capacity
                => LET r == QPush(queues[dec[c].q], SampleAt(dec[c], dec[c].i))
                   IN  ~r.ok /\ r.q = queues[dec[c].q]

C8_Witness ==
    /\ qstat[1].overflows > 0
    /\ qstat[1].pops > 0
    /\ Len(queues[1]) = Capacity

\* C9: k pushes into a queue that started empty, with no pop among them,
\* report exactly max(0, k - Capacity) overflows and leave min(k, Capacity)
\* samples queued.
C9_OverflowCount ==
    \A g \in Ids :
        qstat[g].pops = 0
        => /\ qstat[g].overflows = Max(0, qstat[g].pushes - Capacity)
           /\ Len(queues[g]) = Min(qstat[g].pushes, Capacity)

C9_Witness ==
    /\ qstat[1].pops = 0
    /\ qstat[1].pushes = Capacity + 2
    /\ qstat[1].overflows = 2

\* The frame of silence of the open stream.
SilenceFrame == FillFrame(LiveAudio.channels, ConvertSample(LiveAudio.fmt, 0))

\* C10: a pop on an empty queue returns no sample and the callback is not
\* held up by it: the frame gets the sample 0 on every channel, the queue
\* stays empty, and the callback goes on to write every frame asked for.
C10_UnderflowSilence ==
    cb.st = "run"
    => /\ Len(cb.out) <= cb.frames
       /\ \A i \in 1 .. Len(cb.out) :
             /\ DOMAIN cb.out[i] = 1 .. LiveAudio.channels
             /\ ~cb.popped[i] => cb.out[i] = SilenceFrame
       /\ Len(cb.out) < cb.frames
          => /\ ENABLED CallbackFrame
             /\ queues[LiveAudio.queue] = <<>>
                => LET w == WriteFrame(LiveAudio, queues[LiveAudio.queue])
                   IN  ~w.some /\ w.q = <<>> /\ w.frame = SilenceFrame

C10_Witness ==
    /\ cb.st = "run"
    /\ cb.frames = 2
    /\ cb.popped = <<TRUE, FALSE>>
    /\ cb.out[1] # cb.out[2]
    /\ queues[LiveAudio.queue] = <<>>

\* C11: one callback invocation over F frames of N channels, started with L
\* samples queued and no push meanwhile: frame i <= min(F, L) carries the
\* i-th queued sample, converted, on each of the N channels; every later
\* frame carries silence on each channel; exactly min(F, L) samples have
\* left the queue, from its head.
C11_CallbackFanOut ==
    cb.st = "run"
    => LET a == LiveAudio
           L == Len(cb.q0)
           k == Len(cb.out)
       IN  /\ k <= cb.frames
           /\ Len(cb.popped) = k
           /\ \A i \in 1 .. k :
                 /\ cb.popped[i] <=> i <= L
                 /\ DOMAIN cb.out[i] = 1 .. a.channels
                 /\ \A j \in 1 .. a.channels :
                       cb.out[i][j] =
                           ConvertSample(a.fmt, IF i <= L THEN cb.q0[i] ELSE 0)
           /\ queues[a.queue] = SubSeq(cb.q0, Min(k, L) + 1, L)
           /\ qstat[a.queue].pops
                 = qstat[a.queue].pushes - qstat[a.queue].overflows - L + Min(k, L)

C11_Witness ==
    /\ cb.st = "run"
    /\ cb.frames = 2
    /\ Len(cb.out) = 2
    /\ LiveAudio.channels = 2
    /\ Len(cb.q0) = 2
    /\ cb.q0[1] # cb.q0[2]
    /\ queues[LiveAudio.queue] = <<>>

\* The coordinator is back at rx.recv() and the last command it finished is t.
Finished(t) ==
    /\ coord.pc = "idle"
    /\ coordLog # <<>>
    /\ coordLog[Len(coordLog)].cmd.type = t

LastCmd == coordLog[Len(coordLog)].cmd

\* C12: when a Start whose device opened has finished, the server is
\* reported running, the stream plays on the named device (the default one
\* for None) and reads the run's queue, signaling is activated on that queue
\* with the command's use_stun, and, no connection having been accepted,
\* client_connected is false.
C12_StartSucceeds ==
    (Finished("Start") /\ running.some)
    => /\ status.server_running
       /\ running.audio.stream
       /\ running.audio.device_name = ResolveDevice(LastCmd.device)
       /\ running.audio.queue = running.queue
       /\ session_state # 0
       /\ session_state = running.cancel
       /\ act[session_state].exists
       /\ ~act[session_state].cancelled
       /\ act[session_state].use_stun = LastCmd.use_stun
       /\ act[session_state].queue = running.queue
       /\ (\A c \in Conns : ~HoldsGuard(c)) => ~status.client_connected

\* The first command is Start{Speakers, use_stun = false}, from the stopped
\* state, and no client has connected.
C12_Witness ==
    /\ Finished("Start")
    /\ running.some
    /\ coordLog = <<LogBegin(Cmd("Start", "Speakers", FALSE)),
                    LogEnd(Cmd("Start", "Speakers", FALSE))>>
    /\ running.audio.device_name = "Speakers"
    /\ status.server_running
    /\ ~status.client_connected
    /\ \A c \in Conns : h[c].pc = "idle"

\* A Start has finished without a run: its device did not open.
StartFailed == Finished("Start") /\ ~running.some

\* C13: the step in which Start gives up on the audio output records the
\* error in last_error, and from then until the next command the system is
\* stopped: server_running is false, no stream is open, no run is held, no
\* activation is installed, and a connection that arrives is rejected. This
\* holds whether the Start began stopped or with a run active.
C13_StartFailureStops ==
    [][/\ (coord.pc = "start_open" /\ coord'.pc = "idle")
          => StartFailed' /\ status'.last_error = "audio"
       /\ StartFailed'
          => /\ ~status'.server_running
             /\ ~LiveStream'
             /\ ~running'.audio.stream
             /\ session_state' = 0
       /\ StartFailed
          => \A c \in Conns :
                (h[c].pc = "idle" /\ h'[c].pc # "idle")
                => /\ h'[c].pc = "done"
                   /\ h'[c].outcome = "rejected_inactive"
                   /\ sess' = sess /\ act' = act /\ status' = status]_vars

\* A restart whose device did not open, and a connection rejected.
C13_Witness ==
    /\ StartFailed
    /\ nstarts = 2
    /\ act[1].cancelled
    /\ status.last_error = "audio"
    /\ h[1].outcome = "rejected_inactive"

\* The queues that activations made so far were bound to.
UsedQueues == {act[g].queue : g \in {x \in Ids : act[x].exists}}

\* C14: a Start that finds a run active stops it first and only then opens
\* the audio output: when the new queue is made and the device opened, no
\* activation is installed, every earlier activation has its cancellation
\* raised and no stream of the old run is open; the queue the new stream and
\* the new activation get is empty and is none of the queues used before.
C14_RestartOrder ==
    [][/\ (coord.pc = "start_open" /\ coord'.pc # "start_open")
          => /\ session_state = 0
             /\ ~running.some
             /\ ~LiveStream
             /\ \A g \in Ids : act[g].exists => act[g].cancelled
             /\ nstarts' \notin UsedQueues
             /\ queues'[nstarts'] = <<>>
             /\ coord'.pc = "start_activate"
                => coord'.audio.stream /\ coord'.audio.queue = nstarts'
       /\ (coord.pc = "start_activate" /\ coord'.pc # "start_activate")
          => /\ session_state = 0
             /\ session_state' # 0
             /\ ~act[session_state'].exists
             /\ act'[session_state'].queue = coord.audio.queue
             /\ act'[session_state'].queue \notin UsedQueues
             /\ ~act'[session_state'].cancelled
             /\ ~act'[session_state'].active
       /\ (coord.pc = "start_finish" /\ coord'.pc # "start_finish")
          => /\ running'.queue = act[session_state].queue
             /\ running'.audio.queue = running'.queue]_vars

\* Start, then Start again with the first run active: the second run is on
\* queue 2 while the first activation, on queue 1, is cancelled.
C14_Witness ==
    /\ Len(coordLog) = 4
    /\ coordLog[1].cmd.type = "Start"
    /\ coordLog[3].cmd.type = "Start"
    /\ running.some
    /\ running.queue = 2
    /\ act[1].cancelled
    /\ act[1].queue = 1
    /\ session_state = 2
    /\ act[2].queue = 2

\* C15: in the state a Stop leaves when it finishes, no run is held, no
\* activation is installed, every activation made so far has its
\* cancellation raised, no stream is open and no callback runs, and
\* server_running and client_connected are false and client_addr and
\* pc_state absent.
C15_StopResets ==
    [][(coord.pc = "stop_reset" /\ coord'.pc = "idle")
       => /\ Finished("Stop")'
          /\ ~running'.some
          /\ session_state' = 0
          /\ \A g \in Ids : act'[g].exists => act'[g].cancelled
          /\ ~LiveStream'
          /\ cb' = NoCb
          /\ ~status'.server_running
          /\ ~status'.client_connected
          /\ status'.client_addr = 0
          /\ status'.pc_state = "None"]_vars

\* A Stop has finished on a run whose client is still in its session: the
\* connection fields read as reset.
C15_Witness ==
    /\ Finished("Stop")
    /\ act[1].cancelled
    /\ InSession(1)
    /\ sess[1].st = "loop"
    /\ ~status.server_running
    /\ ~status.client_connected
    /\ status.client_addr = 0
    /\ status.pc_state = "None"

\* C16: a Stop that finds no run tears nothing down and raises no error:
\* taking it changes nothing but the coordinator's position, and finishing
\* it leaves last_error, the activations, the queues, the connections and
\* their sessions as they were, with server_running and client_connected
\* false.
C16_StopWhenIdle ==
    [][/\ (coord.pc = "idle" /\ coord'.pc = "stop_reset")
          => /\ ~running.some
             /\ ~coord'.r.some
             /\ status' = status
             /\ running' = running
             /\ act' = act /\ session_state' = session_state
             /\ queues' = queues /\ sess' = sess /\ h' = h
       /\ (coord.pc = "stop_reset" /\ ~coord.r.some /\ coord'.pc = "idle")
          => /\ status'.last_error = status.last_error
             /\ status'.audio_packets = status.audio_packets
             /\ ~status'.server_running
             /\ ~status'.client_connected
             /\ running' = running /\ ~running.some
             /\ session_state = 0
             /\ act' = act /\ session_state' = session_state
             /\ queues' = queues /\ sess' = sess /\ h' = h /\ cb' = cb]_vars

\* A Start whose device did not open, then a Stop: nothing to tear down, and
\* the error of the Start is still recorded.
C16_Witness ==
    /\ Finished("Stop")
    /\ Len(coordLog) = 4
    /\ coordLog[1].cmd.type = "Start"
    /\ nstarts = 1
    /\ ~act[1].exists
    /\ status.last_error = "audio"
    /\ ~status.server_running
    /\ ~status.client_connected

\* The connection fields read as reset_connection leaves them.
ConnectionReset(s) ==
    /\ ~s.server_running
    /\ ~s.client_connected
    /\ s.client_addr = 0
    /\ s.pc_state = "None"

\* The coordinator is finishing a Stop that directly follows a Stop.
SecondStop ==
    /\ coord.pc = "stop_reset"
    /\ Len(coordLog) >= 3
    /\ coordLog[Len(coordLog) - 1].cmd.type = "Stop"

\* C17: teardown is idempotent. A Stop directly after a Stop finds nothing
\* to tear down and ends in the coordinator and signaling state the first
\* one left; the status fields it writes get the values the first wrote, so
\* a status nobody touched in between is unchanged; and no Stop, whether
\* the first, the second, or one after the session ended by itself, writes
\* last_error.
C17_TeardownIdempotent ==
    [][/\ (SecondStop /\ coord'.pc = "idle")
          => /\ ~coord.r.some
             /\ coord' = IdleCoord
             /\ running' = running /\ ~running.some
             /\ act' = act
             /\ session_state' = session_state /\ session_state = 0
             /\ queues' = queues
             /\ ConnectionReset(status')
             /\ ConnectionReset(status) => status' = status
       /\ (coord.pc = "stop_deactivate" /\ coord'.pc # "stop_deactivate")
          => /\ status' = status
             /\ session_state' = 0
             /\ \A g \in Ids : act[g].cancelled => act'[g] = act[g]
       /\ (coord.pc = "stop_reset" /\ coord'.pc = "idle")
          => /\ status'.last_error = status.last_error
             /\ ConnectionReset(status')
             /\ ~running'.some
             /\ session_state' = 0]_vars

\* Start, Stop, Stop, with a session that ended through an error.
C17_Witness ==
    /\ Finished("Stop")
    /\ Len(coordLog) = 6
    /\ coordLog[1].cmd.type = "Start"
    /\ coordLog[3].cmd.type = "Stop"
    /\ act[1].cancelled
    /\ h[1].outcome = "served"
    /\ status.last_error = "session"
    /\ ConnectionReset(status)

\* The handler of c has reported its session as ended, or is about to
\* release or has released the guard.
ReportedEnded(c) ==
    \/ h[c].pc \in {"end_addr", "end_state", "release"}
    \/ h[c].pc = "done" /\ h[c].outcome = "served"

\* C18: on every path by which a session ends its peer connection is closed
\* before the handler reports the client as disconnected and releases the
\* guard. Stated as claimed; the code breaks it on the paths that leave
\* run() through `?`.
C18_ClosedBeforeEnd ==
    \A c \in Conns : ReportedEnded(c) => ~sess[c].pcOpen

\* C19: a device switch keeps the run's queue. Over every step the run, the
\* activation and the decode task stay on the same queue, which keeps its
\* capacity; a stream that is open reads that queue; and whenever a stream
\* is open, so that a callback can pop, every sample the queue had stored
\* when the latest switch began has already left it: the drain discarded
\* it, no callback having run during the switch.
C19_SwitchKeepsQueue ==
    [][/\ running'.some
       /\ running'.queue = running.queue
       /\ act' = act
       /\ act[session_state].queue = running.queue
       /\ Len(queues'[running.queue]) <= Capacity
       /\ \A c \in Conns :
             dec[c].st # "none"
             => dec'[c].q = dec[c].q /\ dec[c].q = running.queue
       /\ coord'.pc \in {"chg_sleep", "chg_drain"}
          => ~LiveStream' /\ cb'.st = "idle"
       /\ cb'.st = "run" => LiveStream'
       /\ LiveStream'
          => /\ LiveAudio'.queue = running.queue
             /\ qstat'[running.queue].pops >= qstat'[running.queue].mark]_vars

\* A switch to "Cable" has finished; samples were stored when it began and
\* the drain removed them, no callback having run; the session pushed on
\* during the switch and the queue holds samples for the new device.
C19_Witness ==
    /\ Finished("ChangeOutputDevice")
    /\ LiveStream
    /\ running.audio.device_name = "Cable"
    /\ running.queue = 1
    /\ budget.callbacks = MaxCallbacks
    /\ qstat[1].mark >= 1
    /\ qstat[1].pops >= qstat[1].mark
    /\ qstat[1].pushes - qstat[1].overflows > qstat[1].mark
    /\ queues[1] # <<>>

\* C20: the step that ends a device switch leaves the run, its queue,
\* server_running, the activation and every connection and session as they
\* were, and has one of three outcomes: the new device plays on the run's
\* queue and the status is untouched; or the error is recorded in
\* last_error and the previous device plays on the run's queue; or the
\* error is recorded and the run goes on with the stopped placeholder.
C20_SwitchFallback ==
    [][(coord.pc = "chg_drain" /\ coord'.pc = "idle")
       => /\ running.some /\ running'.some
          /\ running'.queue = running.queue
          /\ running'.cancel = running.cancel
          /\ status.server_running /\ status'.server_running
          /\ session_state' = session_state
          /\ act' = act /\ h' = h /\ sess' = sess /\ queues' = queues
          /\ running.audio = StoppedAudio
          /\ \/ /\ running'.audio = StartAudio(coord.cmd.device, running.queue)
                /\ status' = status
             \/ /\ coord.old_device # "(stopped)"
                /\ running'.audio = StartAudio(coord.old_device, running.queue)
                /\ status' = [status EXCEPT !.last_error = "audio"]
             \/ /\ running'.audio = StoppedAudio
                /\ status' = [status EXCEPT !.last_error = "audio"]]_vars

\* A switch from "Speakers" to "Cable" has failed and "Speakers" plays
\* again, with the client's session still in its loop.
C20_Witness ==
    /\ Finished("ChangeOutputDevice")
    /\ LastCmd.device = "Cable"
    /\ running.some
    /\ running.audio.stream
    /\ running.audio.device_name = "Speakers"
    /\ running.audio.queue = running.queue
    /\ status.last_error = "audio"
    /\ status.server_running
    /\ session_state = running.cancel
    /\ InSession(1)
    /\ sess[1].st = "loop"

\* A step of the coordinator inside a device switch: taking the command with
\* a run active, waking from the sleep, or opening the device.
SwitchStep ==
    /\ coord' # coord
    /\ coord.pc \in {"chg_sleep", "chg_drain"} \/ coord'.pc = "chg_sleep"

\* C21: no step of a device switch disturbs the session in progress:
\* server_running, client_connected, client_addr and pc_state keep their
\* values, and so do the guard flag, the installed activation and its
\* cancellation, the run's token, every handler and every session; no new
\* queue or activation is made.
C21_SwitchKeepsSession ==
    [][SwitchStep
       => /\ status'.server_running = status.server_running
          /\ status'.client_connected = status.client_connected
          /\ status'.client_addr = status.client_addr
          /\ status'.pc_state = status.pc_state
          /\ status'.audio_packets = status.audio_packets
          /\ act' = act
          /\ session_state' = session_state
          /\ session_state # 0 /\ ~act[session_state].cancelled
          /\ running'.some /\ running'.cancel = running.cancel
          /\ running'.queue = running.queue
          /\ nstarts' = nstarts
          /\ h' = h
          /\ sess' = sess
          /\ dec' = dec]_vars

\* A switch to "Cable" has finished while connection 1 is in its session's
\* loop, holding the guard of the activation that is still installed.
C21_Witness ==
    /\ Finished("ChangeOutputDevice")
    /\ running.audio.device_name = "Cable"
    /\ InSession(1)
    /\ sess[1].st = "loop"
    /\ status.server_running
    /\ status.client_connected
    /\ status.client_addr = 1
    /\ status.pc_state = "created"
    /\ act[1].active
    /\ ~act[1].cancelled
    /\ session_state = 1
    /\ nstarts = 1

\* The coordinator takes a ChangeOutputDevice while it holds no run.
ChangeWhileStopped ==
    /\ coord.pc = "idle"
    /\ cmds # <<>>
    /\ cmds' = Tail(cmds)
    /\ Head(cmds).type = "ChangeOutputDevice"
    /\ ~running.some

\* C22: a ChangeOutputDevice taken while no run is held ends at once,
\* opens no stream and changes neither the status nor anything else of the
\* core. The device it names is remembered by the application: sending the
\* command stores the name in selected_output, only a later pick changes
\* it, every Start the application sends names the selected device, and a
\* Start that opens its stream opens it on the device it names.
C22_ChangeWhileStopped ==
    [][/\ ChangeWhileStopped
          => /\ coord' = IdleCoord
             /\ status' = status
             /\ running' = running
             /\ ~LiveStream'
             /\ queues' = queues /\ nstarts' = nstarts
             /\ act' = act /\ session_state' = session_state
             /\ app' = app
       /\ Len(submitted') > Len(submitted)
          => LET cmd == submitted'[Len(submitted')]
             IN  /\ cmd.type = "ChangeOutputDevice"
                    => app'.selected_output = cmd.device
                 /\ cmd.type = "Start"
                    => /\ cmd.device = app.selected_output
                       /\ app'.selected_output = app.selected_output
       /\ app'.selected_output # app.selected_output
          => /\ budget'.ui < budget.ui
             /\ Len(submitted') > Len(submitted)
                => submitted'[Len(submitted')]
                      = Cmd("ChangeOutputDevice", app'.selected_output, FALSE)
       /\ (coord.pc = "start_open" /\ coord'.pc = "start_activate")
          => /\ coord'.audio.stream
             /\ coord'.audio.device_name = ResolveDevice(coord.cmd.device)]_vars

\* "Speakers" was started and stopped; "Cable" was picked while the
\* application still showed the server running, so the command went out
\* and found no run; the Start after it plays on "Cable".
C22_Witness ==
    /\ Len(submitted) = 4
    /\ submitted[1] = Cmd("Start", "Speakers", FALSE)
    /\ submitted[2].type = "Stop"
    /\ submitted[3] = Cmd("ChangeOutputDevice", "Cable", FALSE)
    /\ submitted[4].type = "Start"
    /\ Finished("Start")
    /\ Len(coordLog) = 8
    /\ nstarts = 2
    /\ running.some
    /\ running.audio.stream
    /\ running.audio.device_name = "Cable"
    /\ app.selected_output = "Cable"

\* m is the mean of l and r with a half dropped toward zero, the sum taken
\* in i32 and the result in i16.
TruncatedMean(m, l, r) ==
    LET sum == l + r
    IN  /\ sum >= -2147483647 - 1 /\ sum <= 2147483647
        /\ m >= -32768 /\ m <= 32767
        /\ IF sum % 2 = 0 THEN 2 * m = sum
           ELSE IF sum > 0 THEN 2 * m = sum - 1 ELSE 2 * m = sum + 1

\* m is the mean of l and r rounded to the nearest integer, a half going
\* away from zero.
RoundedMean(m, l, r) ==
    LET sum == l + r
    IN  /\ m >= -32768 /\ m <= 32767
        /\ IF sum % 2 = 0 THEN 2 * m = sum
           ELSE IF sum > 0 THEN 2 * m = sum + 1 ELSE 2 * m = sum - 1

\* What a stereo decode task has offered to the queue for the packet in
\* hand: one sample per frame pair handled so far, in frame order, each
\* the rounded or the truncated mean of its left/right pair; and over the
\* task's life exactly one push per frame pair decoded.
StereoOffers(rounded) ==
    \A c \in Conns :
        (dec[c].channels = 2 /\ dec[c].st \in {"read", "push"})
        => LET d == dec[c]
           IN  /\ Len(d.pcm) = 2 * d.n
               /\ Len(d.offered) = d.i
               /\ d.i <= d.n
               /\ d.st = "read" => d.i = d.n
               /\ \A k \in 1 .. d.i :
                     IF rounded
                     THEN RoundedMean(d.offered[k], d.pcm[2 * k - 1], d.pcm[2 * k])
                     ELSE TruncatedMean(d.offered[k], d.pcm[2 * k - 1], d.pcm[2 * k])
               /\ qstat[d.q].pushes + (d.n - d.i) = MaxFrameLen - budget.pushes

\* C23 as claimed: each mono sample is the rounded mean of its pair. The
\* code divides the sum by two in integers, which drops the half of an odd
\* sum instead of rounding it.
C23_DownmixRounds == StereoOffers(TRUE)

\* C23: a stereo packet of N frame pairs has the loop offer exactly N
\* samples to the queue, in frame order, each the mean of its left/right
\* pair with the half of an odd sum dropped toward zero, for every pair of
\* i16 values; the sum fits i32 and the result i16.
C23_DownmixTruncates == StereoOffers(FALSE)

\* A packet of two pairs, the first of negative odd sum at the ends of i16,
\* the second of positive odd sum, has been offered whole.
C23_Witness ==
    /\ dec[1].st = "read"
    /\ dec[1].channels = 2
    /\ dec[1].pcm = <<-32768, 32767, 2, 32767>>
    /\ dec[1].offered = <<0, 16384>>
    /\ qstat[1].pushes = 2

\* The decode task of c has just read a packet that is empty or decodes to
\* 0 samples.
SkippedFrame(c) ==
    /\ dec'[c].nread = dec[c].nread + 1
    /\ dec'[c].last \in {"empty", "zero"}

\* C24: a packet with an empty payload, or one that decodes to 0 samples,
\* adds one to audio_packets and nothing else: no queue changes, nothing is
\* pushed or popped, no drop is counted or logged, and the task is back at
\* read_rtp for the next packet.
C24_EmptyFrameSkipped ==
    [][\A c \in Conns :
          SkippedFrame(c)
          => /\ status'.audio_packets = status.audio_packets + 1
             /\ [status' EXCEPT !.audio_packets = status.audio_packets] = status
             /\ queues' = queues
             /\ qstat' = qstat
             /\ ovlog' = ovlog
             /\ cb' = cb
             /\ budget'.pushes = budget.pushes
             /\ dec[c].st = "read" /\ dec'[c].st = "read"
             /\ [dec'[c] EXCEPT !.nread = dec[c].nread, !.last = dec[c].last]
                   = dec[c]]_vars

\* A packet of samples was pushed, and the packet after it, which decoded
\* to 0 samples, was counted and skipped with the samples still queued.
C24_Witness ==
    /\ dec[1].nread = 2
    /\ dec[1].last = "zero"
    /\ dec[1].st = "read"
    /\ status.audio_packets = 2
    /\ qstat[1].pushes = Capacity
    /\ Len(queues[1]) = Capacity

\* The step in which connection c's decode task fails: decoder creation,
\* read_rtp or decode returns an error.
DecodeFails(c) == dec[c].st # "ended" /\ dec'[c].st = "ended"

\* C25: a decode or transport-read failure ends the decode loop and is
\* reported (the log line "Audio decode stopped: ..." of the status sink; the
\* last_error field is left as it was), and touches nothing else: the
\* signaling loop is where it was and goes on taking events, the guard stays
\* held, client_connected stays true, the audio output stays open and its
\* callback goes on, the coordinator goes on.
C25_DecodeFailureContained ==
    [][\A c \in Conns : DecodeFails(c) =>
          /\ dec[c].log = "None"
          /\ dec'[c].log \in {"opus decoder init", "read_rtp", "opus decode"}
          /\ [status' EXCEPT !.audio_packets = status.audio_packets] = status
          /\ UNCHANGED <<sess, h, act, session_state, running, cb, queues,
                         coord, cmds>>
          /\ (InSession(c) /\ sess[c].st = "loop") =>
                /\ HoldsGuard(c)'
                /\ status'.client_connected
                /\ LiveStream'
                /\ ENABLED SessRecv(c, [kind |-> "text", msg_type |-> "ping"])
                /\ (cb.st = "idle" /\ budget.callbacks > 0) => ENABLED CallbackBegin(1)
      ]_vars

\* A decode task that failed on a packet, beside a session that has taken a
\* candidate and is still in its loop, the stream live, no error set.
C25_Witness ==
    /\ dec[1].log = "opus decode"
    /\ dec[1].st = "ended"
    /\ InSession(1) /\ sess[1].st = "loop"
    /\ sess[1].last = "handled"
    /\ status.client_connected
    /\ status.last_error = "None"
    /\ LiveStream

\* The malformed, unknown-type, ping and non-text events.
DroppedMsgs == {m \in OtherMsgs : Dropped(m)}

\* C26: an inbound message that is malformed, of an unknown type or a ping
\* is dropped: whatever the session's state in its loop, handling it sets no
\* remote description, leaves the pending buffer, the candidates applied to
\* the peer connection and the peer connection itself as they were, puts
\* nothing on the outbound channel or the socket, changes no shared state, and
\* leaves the session in its loop, open to the messages that follow.
C26_DroppedMessages ==
    [][\A c \in Conns : sess[c].st = "loop" =>
          /\ \A m \in DroppedMsgs : HandleInbound(sess[c], m) = sess[c]
          /\ (sess'[c].last = "dropped" /\ sess[c].last # "dropped") =>
                /\ sess'[c] = [sess[c] EXCEPT !.last = "dropped"]
                /\ sess'[c].st = "loop"
                /\ UNCHANGED <<status, h, act, session_state, running, dec,
                               queues, coord>>
      ]_vars

\* A message was dropped by a session that holds two buffered candidates and
\* no remote description: the buffer is still there, nothing was applied.
C26_Witness ==
    /\ sess[1].st = "loop"
    /\ sess[1].last = "dropped"
    /\ sess[1].remote = "None"
    /\ Len(sess[1].pending) = 2
    /\ sess[1].applied = <<>>

\* C27: whenever an offer has been accepted as the remote description and
\* the answer made, the answer gets onto the outbound channel and the loop
\* goes on, however many local candidates wait in the channel. Stated as
\* claimed; the code does not meet it when the channel is full.
C27_AnswerDelivered ==
    \A c \in Conns : (sess[c].st = "answer") ~> (sess[c].st # "answer")

\* The local candidates among the messages of q, and whether candidate n is
\* one of them.
IceOf(q) == SelectSeq(q, LAMBDA m : m.type = "ice")
HasCand(q, n) == \E i \in 1 .. Len(q) : q[i] = OutMsg("ice", n)
LoopAlive(c) == sess[c].st \in {"loop", "answer"}

\* C28: while a session's loop is alive the local candidates produced so
\* far are, in the order of their production, those sent on the socket
\* followed by those waiting in the outbound channel, and each one waiting is
\* eventually sent unless the loop ends first. Stated as claimed; the code
\* does not meet it once the loop waits on its own full channel (C27).
C28_CandidatesForwarded ==
    /\ [](\A c \in Conns : LoopAlive(c) =>
             IceOf(sess[c].sent \o sess[c].out)
                 = [i \in 1 .. sess[c].ncand |-> OutMsg("ice", i)])
    /\ \A c \in Conns, n \in 1 .. MaxCands :
          (LoopAlive(c) /\ HasCand(sess[c].out, n))
              ~> (HasCand(sess[c].sent, n) \/ ~LoopAlive(c))

\* The step in which connection c arrives and finds no activation installed.
ArrivesInactive(c) ==
    h[c].pc = "idle" /\ h'[c].pc # "idle" /\ session_state = 0

\* C29: a connection that arrives while signaling is not activated (before
\* the first Start, after a Stop, after a Start that failed, or while a Start
\* is between its deactivate and its activate) is rejected at once: the
\* handler is done, no flag of any activation is touched, no session is
\* created, and the shared status, client_connected, client_addr and pc_state
\* among it, is as it was; a rejected handler never holds a guard or a peer
\* connection afterwards.
C29_InactiveRejected ==
    [][\A c \in Conns :
          /\ ArrivesInactive(c) =>
                /\ h'[c].pc = "done"
                /\ h'[c].outcome = "rejected_inactive"
                /\ UNCHANGED <<act, session_state, status, sess, running,
                               queues, coord>>
          /\ h[c].outcome = "rejected_inactive" =>
                /\ h'[c] = h[c]
                /\ ~HoldsGuard(c)
                /\ sess[c] = NoSess /\ sess'[c] = NoSess
      ]_vars

\* A connection was rejected for want of an activation, beside a Start (the
\* only one so far) that failed to open its device.
C29_Witness ==
    /\ h[1].outcome = "rejected_inactive"
    /\ StartFailed
    /\ nstarts = 1
    /\ session_state = 0
    /\ ~status.client_connected

\* C30: a snapshot is the shared status of one instant, the one at which
\* snapshot() took the lock: while it copies, the status stays what it was at
\* that instant and every field copied so far is that instant's, and the
\* StatusSnapshot the application ends up with is that instant's status whole,
\* whatever the coordinator, the handler, the peer connection and the decode
\* task write before and after.
C30_SnapshotAtomic ==
    /\ app.pc = "snap" =>
          /\ status = app.at
          /\ \A i \in 1 .. app.copied :
                app.snap[StatusFields[i]] = app.at[StatusFields[i]]
    /\ app.pc = "idle" => app.status = app.at

\* A snapshot was taken after the decode task had counted a packet and the
\* handler had recorded the session's error, and before the handler cleared
\* client_connected, which it has done since: the application holds the
\* status of that instant, which the shared status no longer is.
C30_Witness ==
    /\ app.pc = "idle"
    /\ app.status.audio_packets = 1
    /\ app.status.last_error = "session"
    /\ app.status.client_connected
    /\ ~status.client_connected
    /\ app.status = app.at

\* The configurations of device d that cover 48 kHz, and the streams the
\* coordinator has opened or holds.
Covering(d) ==
    {host.configs[d][i] : i \in {j \in 1 .. Len(host.configs[d]) :
                                   Covers48k(host.configs[d][j])}}
OpenStreams == {a \in {coord.audio, running.audio} : a.stream}

\* C31: a stream is only ever opened on a device that offers a
\* configuration covering 48 kHz, and runs at 48 kHz; on a device without
\* one the start fails. Stated as claimed; the code falls back on the
\* device's default configuration at whatever rate that has.
C31_No48kFails ==
    \A a \in OpenStreams :
        /\ Covering(a.device_name) # {}
        /\ a.rate = SAMPLE_RATE

\* Preference as the claim words it.
PrefChannels(a, b) == (a = 2 /\ b # 2) \/ (a = 1 /\ b \notin {1, 2})
PrefFormat(a, b) ==
    (a = "F32" /\ b \in {"I16", "U16"}) \/ (a = "I16" /\ b = "U16")

\* C32: where the speakers offer configurations covering 48 kHz, the one
\* picked has the rate 48 kHz and the channels and format of one of them,
\* none of them has a preferred channel layout (stereo over mono over the
\* rest), and none with the same layout has a preferred format (f32 over i16
\* over u16); a stream opened on the speakers has that configuration.
C32_BestConfig ==
    Covering("Speakers") # {} =>
        LET p == pick_output_config("Speakers")
        IN  /\ p.ok
            /\ p.cfg.rate = SAMPLE_RATE
            /\ \E r \in Covering("Speakers") :
                  r.channels = p.cfg.channels /\ r.fmt = p.cfg.fmt
            /\ \A r \in Covering("Speakers") :
                  /\ ~PrefChannels(r.channels, p.cfg.channels)
                  /\ r.channels = p.cfg.channels => ~PrefFormat(r.fmt, p.cfg.fmt)
            /\ \A a \in OpenStreams :
                  /\ a.rate = p.cfg.rate
                  /\ a.channels = p.cfg.channels
                  /\ a.fmt = p.cfg.fmt

\* The speakers offer mono f32 covering 48 kHz ahead of stereo i16 covering
\* it: the run plays stereo i16 at 48 kHz.
C32_Witness ==
    /\ host.configs["Speakers"] = <<ConfigRange(44100, 96000, 1, "F32"),
                                    ConfigRange(44100, 96000, 2, "I16")>>
    /\ running.some
    /\ running.audio.stream
    /\ running.audio.channels = 2
    /\ running.audio.fmt = "I16"
    /\ running.audio.rate = SAMPLE_RATE

\* The step in which connection c's decode loop writes an overflow summary.
Emits(c) == ovlog'[c] # ovlog[c]

\* C33: a decode loop writes its overflow summary at the end of a frame
\* that dropped samples, one line however many samples the frame dropped,
\* not before 5 seconds have passed since the loop began and since each
\* earlier line, and the drop counter is zero right after the line.
C33_SummaryRateLimited ==
    [][\A c \in Conns : Emits(c) =>
          LET line == ovlog'[c][Len(ovlog'[c])]
          IN  /\ ovlog'[c] = Append(ovlog[c], line)
              /\ dec[c].st = "push" /\ dec'[c].st = "read"
              /\ dec'[c].local_dropped > 0
              /\ line.t = now
              /\ line.t - dec[c].last_log >= LOG_INTERVAL_SECS
              /\ \A i \in 1 .. Len(ovlog[c]) :
                    line.t - ovlog[c][i].t >= LOG_INTERVAL_SECS
              /\ dec'[c].dropped = 0
              /\ dec'[c].last_log = now
      ]_vars

\* Two summaries 5 seconds apart, the first of three samples dropped by more
\* than one frame.
C33_Witness ==
    /\ Len(ovlog[1]) = 2
    /\ ovlog[1][1].total = 3
    /\ ovlog[1][2].t - ovlog[1][1].t = LOG_INTERVAL_SECS
    /\ dec[1].dropped = 0

RECURSIVE SumTotals(_)
SumTotals(q) == IF q = <<>> THEN 0 ELSE q[1].total + SumTotals(Tail(q))

\* C40: in a decode loop the totals of the summaries written so far plus
\* the drop counter equal the pushes that failed on the full queue, at every
\* point between two frames; within a frame the drops it has made so far are
\* still in local_dropped and make up the difference.
C40_DropsConserved ==
    \A c \in Conns : dec[c].st \in {"read", "push", "ended"} =>
        LET counted == SumTotals(ovlog[c]) + dec[c].dropped
            failed == qstat[dec[c].q].overflows
        IN  /\ dec[c].st # "push" => counted = failed
            /\ dec[c].st = "push" => counted + dec[c].local_dropped = failed

\* A summary of two drops behind it, the loop holds one drop of a later
\* frame in its counter.
C40_Witness ==
    /\ dec[1].st = "read"
    /\ Len(ovlog[1]) = 1
    /\ ovlog[1][1].total = 2
    /\ dec[1].dropped = 1
    /\ qstat[1].overflows = 3

\* The frames read_rtp has handed to the decode loops of connections 1 .. n.
RECURSIVE FramesRead(_)
FramesRead(n) ==
    IF n = 0 THEN 0
    ELSE FramesRead(n - 1) + dec[n].nread
             - (IF dec[n].last = "read_err" THEN 1 ELSE 0)

\* C34: the packet counter is the number of frames read from the transport
\* by all decode loops so far: it rises by one with every frame read, empty,
\* undecodable, decoding to nothing or decoded, never falls, and is left alone
\* by Stop, Start and the end of a session.
C34_PacketsCumulative ==
    [][/\ status'.audio_packets >= status.audio_packets
       /\ status'.audio_packets = FramesRead(NConn)'
       /\ \A c \in Conns :
             (dec'[c].nread = dec[c].nread + 1 /\ dec'[c].last # "read_err")
                 => status'.audio_packets = status.audio_packets + 1
       /\ dec' = dec => status'.audio_packets = status.audio_packets
      ]_vars

\* Two decode loops of two sessions have read a frame each, the second one
\* after the first session ended and a Stop and a Start were processed: the
\* counter stands at 2.
C34_Witness ==
    /\ status.audio_packets = 2
    /\ dec[1].nread = 1 /\ dec[1].last = "bad"
    /\ dec[2].nread = 1 /\ dec[2].last = "empty"
    /\ dec[2].q = 2
    /\ h[1].pc = "done"
    /\ nstarts = 2
    /\ status.server_running

\* The last thing the coordinator did was to finish a Stop: no command has
\* been taken up since.
StopProcessed ==
    /\ coordLog # <<>>
    /\ coordLog[Len(coordLog)] = LogEnd(Cmd("Stop", "None", FALSE))

\* C35: after a Stop has been processed and until the next Start, no handler
\* sets client_connected to true and no handler enters a session, a handler
\* that read the activation before the Stop included.
C35_StoppedStaysQuiet ==
    [][StopProcessed =>
          /\ status'.client_connected => status.client_connected
          /\ \A c \in Conns : sess[c].st = "none" => sess'[c].st = "none"
      ]_vars

\* Connection c has published its status and is inside run(), before and
\* after the step.
StaysInRun(c) == h[c].pc = "run" /\ h'[c].pc = "run"

\* The step is the reset_connection() of a Stop.
StopResets == coord.pc = "stop_reset" /\ coord' # coord

\* C36: while a session that has published client_connected = true is
\* running, no step but a Stop's reset takes client_connected back to false:
\* the end-of-session writes of another session do not land on it.
C36_NoStaleEndWrites ==
    [][\A c \in Conns :
          (StaysInRun(c) /\ status.client_connected /\ ~StopResets)
              => status'.client_connected
      ]_vars

\* The connections holding the guard of activation g: past the guard block
\* and not yet through the release.
Holders(g) ==
    {c \in Conns : h[c].sess = g /\ h[c].pc \notin {"idle", "guard", "done"}}

\* C37: a handler whose run() has returned, with Ok or with an error, goes
\* on to reset client_connected, client_addr and pc_state and then clears
\* the guard flag of its activation; the flag is set exactly while some
\* handler holds it, so an attempt that reaches the guard of the same
\* activation after a session has ended is accepted.
C37_GuardReleased ==
    /\ [][\A c \in Conns :
             /\ (h[c].pc = "release" /\ h'[c].pc = "done") =>
                    /\ sess[c].st = "returned"
                    /\ ~act'[h[c].sess].active
                    /\ ~status'.client_connected
                    /\ status'.client_addr = 0
                    /\ status'.pc_state = "None"
             /\ \A g \in Ids : act'[g].exists =>
                    (act'[g].active <=> Holders(g)' # {})
             /\ (h[c].pc = "guard" /\ h'[c].pc # "guard"
                     /\ Holders(h[c].sess) = {}) => h'[c].pc = "pub_connected"
         ]_vars
    /\ \A c \in Conns :
          (h[c].pc = "run" /\ sess[c].st = "returned")
              ~> (h[c].pc = "done" /\ h[c].outcome = "served")

\* The first session ended with an error and released the guard; the second
\* attempt on the same activation has just been accepted.
C37_Witness ==
    /\ h[1].pc = "done" /\ h[1].outcome = "served"
    /\ sess[1].res = "Err"
    /\ h[2].pc = "pub_connected" /\ h[2].sess = h[1].sess
    /\ act[h[2].sess].active

\* Signaling is activated: a session state is installed, with the queue of
\* the run, a STUN flag and a token that is not cancelled.
Activated ==
    /\ session_state # 0
    /\ act[session_state].exists
    /\ act[session_state].queue = running.queue
    /\ act[session_state].use_stun \in BOOLEAN
    /\ ~act[session_state].cancelled

\* The coordinator holds a run record: an audio binding (a stream, or the
\* stopped placeholder a failed switch leaves) and the queue of the run.
HoldsRun ==
    /\ running.some
    /\ running.queue \in Ids
    /\ running.audio.stream => running.audio.queue = running.queue

\* C38: whenever the coordinator waits for its next command, server_running
\* is true exactly when signaling is activated and exactly when the
\* coordinator holds a run record; when it is false there is neither a
\* session state nor a run.
C38_RunningAgrees ==
    AtRecv(coord) =>
        /\ status.server_running <=> Activated
        /\ status.server_running <=> HoldsRun
        /\ status.server_running <=> session_state # 0
        /\ status.server_running <=> running.some

\* Idle after a Start that failed on top of a run: nothing is running,
\* nothing is activated, and the Start before it had been running.
C38_Witness ==
    /\ AtRecv(coord)
    /\ nstarts = 2
    /\ coordLog[Len(coordLog)].ev = "end"
    /\ coordLog[Len(coordLog)].cmd.type = "Start"
    /\ status.last_error = "audio"
    /\ ~status.server_running
    /\ session_state = 0
    /\ act[1].cancelled

\* C39: a ChangeOutputDevice the coordinator has taken up is finished and
\* the coordinator is back at its channel, also when the decode loop goes on
\* pushing while the switch drains the queue.
C39_SwitchFinishes ==
    (coord.cmd.type = "ChangeOutputDevice" /\ ~AtRecv(coord)) ~> AtRecv(coord)
====
